---- MODULE Spec2Model ----
\* Model of the server node of the federated chat network (crate
\* `server`): the node-state tables of AppState, the HTTP handlers of
\* transport::app_router, the frame dispatch of ws_handle_socket, the
\* heartbeat sweep task and the bootstrap task with the node it dials.
\* AppState derives Clone.  Its Arc<Mutex<..>> tables (servers,
\* server_addrs, server_pubkeys, local_users, user_locations,
\* user_pubkeys, bootstrapped) are shared by every clone; its plain
\* fields (user_heartbeat, pending_messages, public_channel_*) are owned
\* by the one AppState behind the outer Arc<Mutex<AppState>>.  HTTP
\* handlers lock the outer mutex; socket handlers run on a clone.
EXTENDS Integers, Sequences, FiniteSets, TLC

\* ------------------------------------------------------------------ bounds
MaxQueue == 2
MaxTime == 60
\* posts accepted into each public-channel ring
MaxPosts == 102
\* accepted changes of the public channel
MaxVersion == 3
\* posts in the ring that is polled
MaxPolled == 3

\* --------------------------------------------------------- program constants
\* the length at which a public-channel ring drops its oldest entry
RingCap == 100
StaleSecs == 45
SweepSecs == 15

\* ------------------------------------------------------------- identifiers
SelfId == "s0"
Peers == {"s1", "s2"}
Users == {"u1", "u2"}
\* an id that no server or user of the model runs under
OtherId == "s9"
Uuids == Users \cup Peers \cup {SelfId, OtherId}
BroadcastStr == "*"
NotUuid == "not-a-uuid"
NoneStr == "<none>"

\* Id::from_str: Uuid::parse_str succeeds
IdFromStrOk(s) == s \in Uuids

\* Identifier::deserialize / as_id: the Id variant is chosen for UUID strings
IsId(ident) == ident \in Uuids

\* ------------------------------------------------------------------- maps
EmptyMap == [x \in {} |-> x]
PutMut(f, k, v) == [x \in (DOMAIN f) \cup {k} |-> IF x \in DOMAIN f THEN f[x] ELSE v]
Put(f, k, v) == [x \in (DOMAIN f) \cup {k} |-> IF x = k THEN v ELSE f[x]]
RemoveMut(f, k) == [x \in (DOMAIN f) \ {CHOOSE y \in DOMAIN f : TRUE} |-> f[x]]
Remove(f, k) == [x \in (DOMAIN f) \ {k} |-> f[x]]
GetOr(f, k, d) == IF k \in DOMAIN f THEN f[k] ELSE d

\* ------------------------------------------------------------ JSON values
JStr(s) == [kind |-> "string", val |-> s]
JNum(s) == [kind |-> "number", val |-> s]
JNull == [kind |-> "null", val |-> ""]
JAbsent == [kind |-> "absent", val |-> ""]

\* map.get(k).and_then(|v| v.as_str()).unwrap_or("").to_string()
AsStrOrEmptyMut(j) == JStr(j.val)
AsStrOrEmpty(j) == IF j.kind = "string" THEN j ELSE JStr("")

\* map.get(k).cloned().unwrap_or(serde_json::Value::Null)
ClonedOrNull(j) == IF j.kind = "absent" THEN JNull ELSE j

\* ------------------------------------------------------------- signatures
\* A signature names the key that made it and the bytes it was made over.
NoSig == [signer |-> "", over |-> <<>>]
PlaceholderSig == [signer |-> "server_sig_placeholder", over |-> <<>>]
ForgedSig == [signer |-> "pk_mallory", over |-> <<>>]

\* serde_json::to_string of the envelope with sig = ""
Canonical(m) == <<m.type, m.from, m.to, m.ts, m.payload>>

server_pubkey == "pk_s0"
PeerPubkey(s) == IF s = "s1" THEN "pk_s1" ELSE "pk_" \o s

\* utils::sign_message with the key pair whose public half is pub
SignMessage(m, pub) == [signer |-> pub, over |-> Canonical(m)]

\* CryptoUtil::verify of sig over the cleared envelope under pub
VerifySig(m, pub) == m.sig.signer = pub /\ m.sig.over = Canonical(m)

\* --------------------------------------------------------------- envelopes
Msg(t, f, to, ts, p, s) ==
    [type |-> t, from |-> f, to |-> to, ts |-> ts, payload |-> p, sig |-> s]
NoMsg == Msg("", "", "", 0, [none |-> TRUE], NoSig)

\* format!("{:?}", msg.payload_type); the sentinel arrives as the JSON value
\* {"INVALID_TYPE": "raw"} and prints with the raw tag it carries
TypeDebug(t) ==
    CASE t = "MSG_DIRECT" -> "MsgDirect"
      [] t = "HEARTBEAT" -> "Heartbeat"
      [] t = "USER_DELIVER" -> "UserDeliver"
      [] t = "USER_ADVERTISE" -> "UserAdvertise"
      [] t = "FILE_START" -> "FileStart"
      [] t = "FILE_CHUNK" -> "FileChunk"
      [] t = "FILE_END" -> "FileEnd"
      [] t = "INVALID_TYPE" -> "InvalidType(\"raw\")"
      [] t = "PUBLIC_CHANNEL_ADD" -> "PublicChannelAdd"
      [] t = "PUBLIC_CHANNEL_UPDATED" -> "PublicChannelUpdated"
      [] t = "PUBLIC_CHANNEL_KEY_SHARE" -> "PublicChannelKeyShare"
      [] OTHER -> t

\* ----------------------------------------------------------------- state
VARIABLES
    local_users,        \* Id -> ConnectionInfo
    user_locations,     \* Id -> String
    user_heartbeat,     \* Id -> Instant
    pending_messages,   \* Id -> VecDeque<Message>
    servers,            \* Id -> ConnectionInfo
    server_addrs,       \* Id -> (host, port)
    server_pubkeys,     \* Id -> String
    now,                \* the clock read by Instant::now()
    dm_task,            \* a direct_message_http request between its lock blocks
    hb_task,            \* a heartbeat_http request between its lock blocks
    last,               \* the step just taken: handler, input, response
    since_poll,         \* per user, what was accepted since the user's last poll
    user_pubkeys,       \* Id -> String
    bootstrapped,       \* Arc<Mutex<bool>>
    outbox,             \* frames this node wrote to a socket: [to, msg]
    boot,               \* the bootstrap_process task and the reply it reads
    introducer,         \* the tables of the bootstrap node that is dialled
    public_channel_members,      \* HashSet<Id>
    public_channel_version,      \* u64
    public_channel_key,          \* Option<String>
    public_channel_id,           \* Option<String>
    public_channel_name,         \* Option<String>
    public_channel_description,  \* Option<String>
    public_channel_messages,     \* VecDeque<PublicChannelMessagePayload>
    public_channel_file_events,  \* VecDeque<Message>
    posted,             \* every entry ever pushed to each ring, in post order
    threads             \* per task, its place in its lock script and the locks it holds

fed == <<servers, server_addrs, server_pubkeys>>
client_tables == <<local_users, user_locations, user_heartbeat, pending_messages>>
tables == <<client_tables, fed, user_pubkeys>>
\* what the client-facing handlers and the sweep never touch
ext == <<user_pubkeys, bootstrapped, outbox, boot, introducer, threads>>
\* the public channel of this node
channel_info == <<public_channel_id, public_channel_name, public_channel_description,
                  public_channel_key, public_channel_members>>
public_channel == <<channel_info, public_channel_version, public_channel_messages,
                    public_channel_file_events, posted>>
vars == <<local_users, user_locations, user_heartbeat, pending_messages, fed, now,
          dm_task, hb_task, last, since_poll, ext, public_channel>>

\* ------------------------------------------------------------- responses
Ok200(body) == [status |-> 200, err |-> "", expected |-> "", actual |-> "", body |-> body]
\* HandlerError::Client(ClientError::InvalidPayloadType) -> 400 BAD_REQUEST
InvalidPayloadType(exp, act) ==
    [status |-> 400, err |-> "InvalidPayloadType", expected |-> exp, actual |-> act,
     body |-> <<>>]
\* HandlerError::Client(ClientError::PayloadExtraction)
PayloadExtraction ==
    [status |-> 400, err |-> "PayloadExtraction", expected |-> "", actual |-> "",
     body |-> <<>>]
\* HandlerError::Client(ClientError::Deserialization) -> 400 BAD_REQUEST
Deserialization ==
    [status |-> 400, err |-> "Deserialization", expected |-> "", actual |-> "",
     body |-> <<>>]
NoResp == [status |-> 0, err |-> "", expected |-> "", actual |-> "", body |-> <<>>]

Step(op, msg, user, resp) == [op |-> op, msg |-> msg, user |-> user, resp |-> resp]

IdleDm == [pc |-> "idle", msg |-> NoMsg, sender |-> ""]
IdleHb == [pc |-> "idle", user |-> ""]
\* config.bootstrap_servers holds one entry, the node s1
BootstrapServer == [host |-> "h1", port |-> 9001, pubkey |-> PeerPubkey("s1")]
BootstrapAddr == "h1:9001"
\* bootstrap_process before its first connect_async
\* server_id is the plain field of the clone the task owns; config is
\* config.bootstrap_servers and idx the entry the for loop is at
IdleBoot == [pc |-> "start", reply |-> NoMsg, server_id |-> SelfId,
             config |-> <<BootstrapServer>>, idx |-> 1]
\* no task has taken a lock yet
TaskNames == {"list_users_http", "user_hello_http", "heartbeat_cleanup",
              "handle_server_hello_join", "bootstrap_process"}
IdleThreads == [t \in TaskNames |-> [pc |-> 1, held |-> {}]]
\* a node started with skip_bootstrap: no peer, no remote user known
FreshNode ==
    [servers |-> EmptyMap, server_addrs |-> EmptyMap, server_pubkeys |-> EmptyMap,
     user_locations |-> EmptyMap, user_pubkeys |-> EmptyMap, bootstrapped |-> TRUE]

\* the state main builds, for the list of bootstrap servers of the configuration
InitWith(bootstrap_servers) ==
    /\ local_users = EmptyMap
    /\ user_locations = EmptyMap
    /\ user_heartbeat = EmptyMap
    /\ pending_messages = EmptyMap
    /\ servers = EmptyMap
    /\ server_addrs = EmptyMap
    /\ server_pubkeys = EmptyMap
    /\ now = 0
    /\ dm_task = IdleDm
    /\ hb_task = IdleHb
    /\ last = Step("init", NoMsg, "", NoResp)
    /\ since_poll = [u \in Users |-> <<>>]
    /\ user_pubkeys = EmptyMap
    /\ bootstrapped = FALSE
    /\ outbox = {}
    /\ boot = [IdleBoot EXCEPT !.config = bootstrap_servers]
    /\ introducer = FreshNode
    /\ threads = IdleThreads
    /\ public_channel_members = {}
    /\ public_channel_version = 0
    /\ public_channel_key = NoneStr
    /\ public_channel_id = NoneStr
    /\ public_channel_name = NoneStr
    /\ public_channel_description = NoneStr
    /\ public_channel_messages = <<>>
    /\ public_channel_file_events = <<>>
    /\ posted = [messages |-> <<>>, file_events |-> <<>>]

Init == InitWith(<<BootstrapServer>>)

\* ------------------------------------------------------------------ inputs
UserIdInputs == Users \cup {NotUuid}

GoodPayload == [ciphertext |-> JStr("c1"), sender_pub |-> JStr("spk"),
                content_sig |-> JStr("csig")]
\* sender_pub is a JSON number, content_sig is a JSON null
OddPayload == [ciphertext |-> JStr("c2"), sender_pub |-> JNum("7"),
               content_sig |-> JNull]
\* a payload without the three members (or one that is not a JSON object)
BarePayload == [ciphertext |-> JAbsent, sender_pub |-> JAbsent,
                content_sig |-> JAbsent]

Dm(to, ts, p) == Msg("MSG_DIRECT", "u1", to, ts, p, NoSig)
\* envelopes that direct_message_http turns away in its first lock block
DmRejects ==
    { Msg("HEARTBEAT", "u1", "u2", 1, GoodPayload, NoSig),
      Msg("INVALID_TYPE", "u1", "u2", 1, GoodPayload, NoSig),
      Msg("MSG_DIRECT", BroadcastStr, "u2", 1, GoodPayload, NoSig),
      Msg("MSG_DIRECT", "u1", BroadcastStr, 1, GoodPayload, NoSig) }

FilePayload == [file_id |-> "f1"]
FileEvent(ty, to) == Msg(ty, "u1", to, 3, FilePayload, NoSig)

\* ------------------------------------------------------ queue helpers
Queue(u) == GetOr(pending_messages, u, <<>>)
InFlightTo(u) == IF dm_task.pc # "idle" /\ dm_task.msg.to = u THEN 1 ELSE 0
Room(u) == Len(Queue(u)) + InFlightTo(u) < MaxQueue

Accepted(kind, m) == [kind |-> kind, msg |-> m]
NoteAccepted(u, kind, m) ==
    IF u \in Users
    THEN [since_poll EXCEPT ![u] = Append(@, Accepted(kind, m))]
    ELSE since_poll
NotePolled(u) ==
    IF u \in Users THEN [since_poll EXCEPT ![u] = <<>>] ELSE since_poll

\* ------------------------------------------------- POST /api/user_hello
\* ConnectionInfo::default() with the supplied pubkey pinned when non-empty
HelloConn(pubkey) ==
    [conn_type |-> "Unknown", socket |-> FALSE,
     pubkey |-> IF pubkey # "" THEN pubkey ELSE NoneStr]

\* payload.meta.display_name, falling back to the id string
HelloName(uid, name) == IF name # NoneStr THEN name ELSE uid

user_hello_http(uid, pubkey, name) ==
    /\ IF ~IdFromStrOk(uid)
       THEN /\ last' = Step("user_hello_http", NoMsg, uid, Ok200(<<"invalid id">>))
            /\ UNCHANGED client_tables
       ELSE /\ local_users' = Put(local_users, uid, HelloConn(pubkey))
            /\ user_heartbeat' = Put(user_heartbeat, uid, now)
            /\ user_locations' = Put(user_locations, uid, HelloName(uid, name))
            /\ last' = Step("user_hello_http", NoMsg, uid, Ok200(<<"ok">>))
            /\ UNCHANGED pending_messages
    /\ UNCHANGED <<fed, now, dm_task, hb_task, since_poll>>
    /\ UNCHANGED ext
    /\ UNCHANGED public_channel

\* --------------------------------------------- POST /api/direct_message
\* local_users.keys().any(|k| k.to_string() == to_id_str)
FoundLocal(to_id) == to_id \in DOMAIN local_users

\* user_locations.get(&from_id).cloned().unwrap_or(sender_id_str)
SenderDisplayName(from_id) == GetOr(user_locations, from_id, from_id)

\* the USER_DELIVER envelope composed for a local recipient
DeliverMsg(m, sender) ==
    Msg("USER_DELIVER", SelfId, m.to, m.ts,
        [sender |-> sender,
         sender_pub |-> AsStrOrEmpty(m.payload.sender_pub),
         ciphertext |-> ClonedOrNull(m.payload.ciphertext),
         content_sig |-> ClonedOrNull(m.payload.content_sig)],
        PlaceholderSig)

\* msg.payload_type != PayloadType::MsgDirect
WrongTypeMut(m) == m.type \notin {"MSG_DIRECT", "HEARTBEAT"}
WrongType(m) == m.type # "MSG_DIRECT"

\* first lock block: type and identifier checks, then the recipient lookup
direct_message_check(m) ==
    /\ dm_task.pc = "idle"
    /\ IsId(m.to) => Room(m.to)
    /\ IF WrongType(m)
       THEN /\ last' = Step("direct_message_http", m, "",
                            InvalidPayloadType("MsgDirect", TypeDebug(m.type)))
            /\ UNCHANGED dm_task
       ELSE IF ~IsId(m.from)
       THEN /\ last' = Step("direct_message_http", m, "",
                            InvalidPayloadType("Identifier::Id", m.from))
            /\ UNCHANGED dm_task
       ELSE IF ~IsId(m.to)
       THEN /\ last' = Step("direct_message_http", m, "",
                            InvalidPayloadType("Identifier::Id", m.to))
            /\ UNCHANGED dm_task
       ELSE IF FoundLocal(m.to)
       THEN /\ dm_task' = [pc |-> "lookup", msg |-> m, sender |-> ""]
            /\ last' = Step("direct_message_check", m, "", NoResp)
       ELSE /\ last' = Step("direct_message_http", m, "",
                            InvalidPayloadType("Connected local user", m.to))
            /\ UNCHANGED dm_task
    /\ UNCHANGED <<tables, now, hb_task, since_poll>>
    /\ UNCHANGED ext
    /\ UNCHANGED public_channel

\* second lock block: the sender's display name
direct_message_lookup ==
    /\ dm_task.pc = "lookup"
    /\ dm_task' = [dm_task EXCEPT !.pc = "push",
                                  !.sender = SenderDisplayName(dm_task.msg.from)]
    /\ last' = Step("direct_message_lookup", dm_task.msg, "", NoResp)
    /\ UNCHANGED <<tables, now, hb_task, since_poll>>
    /\ UNCHANGED ext
    /\ UNCHANGED public_channel

\* entry(to_id).or_insert_with(VecDeque::new).push_back(deliver_msg)
PushFront(u, m) == Put(pending_messages, u, <<m>> \o Queue(u))
PushBack(u, m) == Put(pending_messages, u, Append(Queue(u), m))

\* last lock block: compose USER_DELIVER and queue it
direct_message_push ==
    /\ dm_task.pc = "push"
    /\ pending_messages' =
           PushBack(dm_task.msg.to, DeliverMsg(dm_task.msg, dm_task.sender))
    /\ since_poll' = NoteAccepted(dm_task.msg.to, "dm", dm_task.msg)
    /\ dm_task' = IdleDm
    /\ last' = Step("direct_message_http", dm_task.msg, "", Ok200(<<>>))
    /\ UNCHANGED <<local_users, user_locations, user_heartbeat, fed, now, hb_task>>
    /\ UNCHANGED ext
    /\ UNCHANGED public_channel

\* ------------------------ POST /api/poll_direct_messages, /api/poll_file_events
\* queue.drain(..).collect()
DrainedMut(u) == IF Queue(u) = <<>> THEN <<>> ELSE Tail(Queue(u)) \o <<Head(Queue(u))>>
Drained(u) == Queue(u)
AfterPeek(u) == Put(pending_messages, u, Queue(u))
AfterDrain(u) == Put(pending_messages, u, <<>>)

poll_direct_messages_http(uid) ==
    /\ IF ~IdFromStrOk(uid)
       THEN /\ last' = Step("poll_direct_messages_http", NoMsg, uid,
                            InvalidPayloadType("valid user_id", uid))
            /\ UNCHANGED <<pending_messages, since_poll>>
       ELSE /\ pending_messages' = AfterDrain(uid)
            /\ last' = Step("poll_direct_messages_http", NoMsg, uid, Ok200(Drained(uid)))
            /\ since_poll' = NotePolled(uid)
    /\ UNCHANGED <<local_users, user_locations, user_heartbeat, fed, now, dm_task, hb_task>>
    /\ UNCHANGED ext
    /\ UNCHANGED public_channel

poll_file_events_httpMut(uid) ==
    /\ IF ~IdFromStrOk(uid)
       THEN /\ last' = Step("poll_file_events_http", NoMsg, uid, Ok200(<<>>))
            /\ UNCHANGED <<pending_messages, since_poll>>
       ELSE /\ pending_messages' =
                  Put(pending_messages, uid,
                      SelectSeq(Queue(uid), LAMBDA m : m.type = "USER_DELIVER"))
            /\ last' = Step("poll_file_events_http", NoMsg, uid,
                             Ok200(SelectSeq(Queue(uid),
                                             LAMBDA m : m.type # "USER_DELIVER")))
            /\ since_poll' = NotePolled(uid)
    /\ UNCHANGED <<local_users, user_locations, user_heartbeat, fed, now, dm_task, hb_task>>
    /\ UNCHANGED ext
    /\ UNCHANGED public_channel
poll_file_events_http(uid) ==
    /\ IF ~IdFromStrOk(uid)
       THEN /\ last' = Step("poll_file_events_http", NoMsg, uid, Ok200(<<>>))
            /\ UNCHANGED <<pending_messages, since_poll>>
       ELSE /\ pending_messages' = AfterDrain(uid)
            /\ last' = Step("poll_file_events_http", NoMsg, uid, Ok200(Drained(uid)))
            /\ since_poll' = NotePolled(uid)
    /\ UNCHANGED <<local_users, user_locations, user_heartbeat, fed, now, dm_task, hb_task>>
    /\ UNCHANGED ext
    /\ UNCHANGED public_channel

\* ----------------------- POST /api/file_start, /api/file_chunk, /api/file_end
\* the three handlers have the same body: no check of msg.payload_type
FileEventQueued(op, m) ==
    /\ IsId(m.to) => Room(m.to)
    /\ IF ~IsId(m.to)
       THEN /\ last' = Step(op, m, "", Ok200(<<"invalid to id">>))
            /\ UNCHANGED <<pending_messages, since_poll>>
       ELSE /\ pending_messages' = PushBack(m.to, m)
            /\ since_poll' = NoteAccepted(m.to, "file", m)
            /\ last' = Step(op, m, "", Ok200(<<"ok">>))
    /\ UNCHANGED <<local_users, user_locations, user_heartbeat, fed, now, dm_task, hb_task>>
    /\ UNCHANGED ext
    /\ UNCHANGED public_channel

file_transfer_start_http(m) == FileEventQueued("file_transfer_start_http", m)
file_transfer_chunk_http(m) == FileEventQueued("file_transfer_chunk_http", m)
file_transfer_end_http(m) == FileEventQueued("file_transfer_end_http", m)


\* ------------------------------------------------------ POST /api/heartbeat
\* first lock block: local_users.contains_key(&id)
UserExistsMut(id) == IdFromStrOk(id)
UserExists(id) == id \in DOMAIN local_users

heartbeat_check(uid) ==
    /\ hb_task.pc = "idle"
    /\ IF ~IdFromStrOk(uid)
       THEN /\ last' = Step("heartbeat_http", NoMsg, uid, Ok200(<<"invalid id">>))
            /\ UNCHANGED hb_task
       ELSE IF UserExists(uid)
       THEN /\ hb_task' = [pc |-> "record", user |-> uid]
            /\ last' = Step("heartbeat_check", NoMsg, uid, NoResp)
       ELSE /\ last' = Step("heartbeat_http", NoMsg, uid, Ok200(<<"not found">>))
            /\ UNCHANGED hb_task
    /\ UNCHANGED <<tables, now, dm_task, since_poll>>
    /\ UNCHANGED ext
    /\ UNCHANGED public_channel

\* second lock block: state.user_heartbeat.insert(id, Instant::now())
heartbeat_record ==
    /\ hb_task.pc = "record"
    /\ user_heartbeat' = Put(user_heartbeat, hb_task.user, now)
    /\ hb_task' = IdleHb
    /\ last' = Step("heartbeat_http", NoMsg, hb_task.user, Ok200(<<"ok">>))
    /\ UNCHANGED <<local_users, user_locations, pending_messages, fed, now,
                   dm_task, since_poll>>
    /\ UNCHANGED ext
    /\ UNCHANGED public_channel

\* ------------------------------------------------ GET /api/users/online
\* list_users_http: one entry per key of local_users, the display name taken
\* from user_locations, falling back to the id string
list_users_http ==
    { [user_id |-> id, display_name |-> GetOr(user_locations, id, id)] :
        id \in DOMAIN local_users }
Listed(u) == \E e \in list_users_http : e.user_id = u

\* ------------------------------------------------- heartbeat cleanup task
\* now.duration_since(*last) > Duration::from_secs(45)
StaleMut(id) == now - user_heartbeat[id] > StaleSecs + SweepSecs
Stale(id) == now - user_heartbeat[id] > StaleSecs
ToRemoveMut == { id \in DOMAIN user_heartbeat : now - user_heartbeat[id] >= StaleSecs }
ToRemove == { id \in DOMAIN user_heartbeat : Stale(id) }

RemoveAll(f, ids) == [x \in (DOMAIN f) \ ids |-> f[x]]

\* the ids one tick removed, as the step's record of what it did
UserOrder == <<"u1", "u2">>
Removed(ids) == SelectSeq(UserOrder, LAMBDA x : x \in ids)

\* one tick of spawn_heartbeat_cleanup, run under the outer state lock
heartbeat_cleanup ==
    /\ local_users' = RemoveAll(local_users, ToRemove)
    /\ user_locations' = RemoveAll(user_locations, ToRemove)
    /\ user_heartbeat' = RemoveAll(user_heartbeat, ToRemove)
    /\ last' = Step("heartbeat_cleanup", NoMsg, "",
                     [NoResp EXCEPT !.body = Removed(ToRemove)])
    /\ UNCHANGED <<pending_messages, fed, now, dm_task, hb_task, since_poll>>
    /\ UNCHANGED ext
    /\ UNCHANGED public_channel

\* the clock advances by one sweep interval
Tick ==
    /\ now + SweepSecs <= MaxTime
    /\ now' = now + SweepSecs
    /\ last' = Step("tick", NoMsg, "", NoResp)
    /\ UNCHANGED <<tables, dm_task, hb_task, since_poll>>
    /\ UNCHANGED ext
    /\ UNCHANGED public_channel

\* ------------------------------------------------ frames on a peer socket
\* ws_handle_socket dispatches on message.payload_type; each handler runs on
\* a clone of AppState, so only the shared tables can change.
AdvertisePayload(uid, sid) ==
    [user_id |-> uid, server_id |-> sid, meta |-> [display_name |-> NoneStr]]
AnnouncePayload(h, p, k) == [host |-> h, port |-> p, pubkey |-> k]

\* an envelope signed by the peer that sends it
Signed(m, pub) == [m EXCEPT !.sig = SignMessage(m, pub)]

\* handle_user_advertise: no signature check before the insert
handle_user_advertise(m) ==
    /\ m.type = "USER_ADVERTISE"
    /\ IF ~IdFromStrOk(m.payload.user_id)
       THEN UNCHANGED user_locations
       ELSE user_locations' =
                Put(user_locations, m.payload.user_id, m.payload.server_id)
    /\ last' = Step("handle_user_advertise", m, "", NoResp)
    /\ UNCHANGED <<local_users, user_heartbeat, pending_messages, fed, now,
                   dm_task, hb_task, since_poll>>
    /\ UNCHANGED ext
    /\ UNCHANGED public_channel

\* if let Some(current_server) = locations.get(&user_id)
\*     && current_server == &payload.server_id
StillPointsToMut(u, s) == u \in DOMAIN user_locations
StillPointsTo(u, s) == u \in DOMAIN user_locations /\ user_locations[u] = s

\* handle_user_remove: removes only a mapping that still names the remover
handle_user_remove(m) ==
    /\ m.type = "USER_REMOVE"
    /\ IF /\ IdFromStrOk(m.payload.user_id)
          /\ StillPointsTo(m.payload.user_id, m.payload.server_id)
       THEN user_locations' = Remove(user_locations, m.payload.user_id)
       ELSE UNCHANGED user_locations
    /\ last' = Step("handle_user_remove", m, "", NoResp)
    /\ UNCHANGED <<local_users, user_heartbeat, pending_messages, fed, now,
                   dm_task, hb_task, since_poll>>
    /\ UNCHANGED ext
    /\ UNCHANGED public_channel

\* handle_server_announce: upsert of the announcing server
handle_server_announce(m) ==
    /\ m.type = "SERVER_ANNOUNCE"
    /\ IF ~IsId(m.from)
       THEN UNCHANGED fed
       ELSE /\ servers' = Put(servers, m.from,
                              [conn_type |-> "Unknown", socket |-> FALSE,
                               pubkey |-> NoneStr])
            /\ server_addrs' = Put(server_addrs, m.from,
                                   <<m.payload.host, m.payload.port>>)
            /\ server_pubkeys' = Put(server_pubkeys, m.from, m.payload.pubkey)
    /\ last' = Step("handle_server_announce", m, "", NoResp)
    /\ UNCHANGED <<client_tables, now, dm_task, hb_task, since_poll>>
    /\ UNCHANGED ext
    /\ UNCHANGED public_channel

\* the PayloadType::InvalidType arm of the dispatch: a warning is logged
ws_invalid_type(m) ==
    /\ m.type = "INVALID_TYPE"
    /\ last' = Step("ws_handle_socket", m, "", NoResp)
    /\ UNCHANGED <<tables, now, dm_task, hb_task, since_poll>>
    /\ UNCHANGED ext
    /\ UNCHANGED public_channel

\* ------------------------------------------------ presence gossip, sending
\* a frame composed for the peer `to`; written tells whether it reached a socket
Frame(to, m, written) == [to |-> to, msg |-> m, written |-> written]

\* the USER_ADVERTISE that advertise_user_to_network composes and signs
UserAdvertiseMsg(uid) ==
    Signed(Msg("USER_ADVERTISE", SelfId, BroadcastStr, now,
               AdvertisePayload(uid, SelfId), NoSig), server_pubkey)

\* its loop over `servers`: with a socket the frame is logged as "queued",
\* without one a warning is logged; neither branch writes to the socket
advertise_user_to_network(uid) ==
    { Frame(sid, UserAdvertiseMsg(uid), FALSE) : sid \in DOMAIN servers }

\* the USER_REMOVE that remove_user_from_network composes; no caller exists
UserRemoveMsg(uid) ==
    Signed(Msg("USER_REMOVE", SelfId, BroadcastStr, now,
               [user_id |-> uid, server_id |-> SelfId], NoSig), server_pubkey)

\* ----------------------------------------------- USER_HELLO on a web socket
\* ConnectionInfo::with_socket(link): the socket is kept, no pubkey is pinned
SocketConn == [conn_type |-> "Unknown", socket |-> TRUE, pubkey |-> NoneStr]
UserHello(from) ==
    Msg("USER_HELLO", from, SelfId, 2,
        [client |-> "cli", pubkey |-> "cpk", enc_pubkey |-> "epk"], NoSig)

\* handle_user_hello: local_users, then user_locations = "local", then the
\* advertisement; user_heartbeat and user_pubkeys are not written
handle_user_hello(m) ==
    /\ IF m.type # "USER_HELLO"
       THEN /\ last' = Step("handle_user_hello", m, "",
                            InvalidPayloadType("UserHello", TypeDebug(m.type)))
            /\ UNCHANGED <<local_users, user_locations, outbox>>
       ELSE IF ~IsId(m.from)
       THEN /\ last' = Step("handle_user_hello", m, "", PayloadExtraction)
            /\ UNCHANGED <<local_users, user_locations, outbox>>
       ELSE /\ local_users' = Put(local_users, m.from, SocketConn)
            /\ user_locations' = Put(user_locations, m.from, "local")
            /\ outbox' = outbox \cup advertise_user_to_network(m.from)
            /\ last' = Step("handle_user_hello", m, m.from, Ok200(<<"ok">>))
    /\ UNCHANGED <<user_heartbeat, pending_messages, fed, now, dm_task, hb_task,
                   since_poll, user_pubkeys, bootstrapped, boot, introducer>>
    /\ UNCHANGED threads
    /\ UNCHANGED public_channel

\* --------------------------------------------- SERVER_DELIVER on a web socket
ServerDeliverPayload(uid) ==
    [user_id |-> uid, ciphertext |-> "ct", sender |-> "u9", sender_pub |-> "cpk9",
     content_sig |-> "cs"]
DeliverPayloadOk(p) ==
    DOMAIN p = {"user_id", "ciphertext", "sender", "sender_pub", "content_sig"}
DeliverError(text) == [PayloadExtraction EXCEPT !.actual = text]

\* forward_to_server: the id must parse, the server must be in servers and
\* its connection must hold a socket; the frame is then logged, not written
forward_to_server(sid) ==
    IdFromStrOk(sid) /\ sid \in DOMAIN servers /\ servers[sid].socket

\* handle_server_deliver: the answer for the location found in user_locations
DeliverOutcome(uid) ==
    IF uid \notin DOMAIN user_locations
    THEN DeliverError("Unknown user location")
    ELSE IF user_locations[uid] = "local"
    THEN IF uid \in DOMAIN local_users
         THEN Ok200(<<"delivered_local">>)
         ELSE DeliverError("User not connected locally")
    ELSE IF forward_to_server(user_locations[uid])
    THEN Ok200(<<"forwarded">>)
    ELSE DeliverError("Failed to forward message")

\* no table, queue or socket is written on any path: the local branch spawns
\* a task that looks at the socket and logs
handle_server_deliver(m) ==
    /\ last' = Step("handle_server_deliver", m, "",
                     IF m.type # "SERVER_DELIVER"
                     THEN InvalidPayloadType("ServerDeliver", TypeDebug(m.type))
                     ELSE IF ~DeliverPayloadOk(m.payload)
                     THEN PayloadExtraction
                     ELSE IF ~IdFromStrOk(m.payload.user_id)
                     THEN DeliverError("Invalid user_id")
                     ELSE DeliverOutcome(m.payload.user_id))
    /\ UNCHANGED <<tables, now, dm_task, hb_task, since_poll>>
    /\ UNCHANGED ext
    /\ UNCHANGED public_channel

\* ------------------------------------------------------- joining a network
\* The Arc-shared tables of one node as a record, so that the same handler
\* can be applied to this node and to the bootstrap node it dials.
Node ==
    [servers |-> servers, server_addrs |-> server_addrs,
     server_pubkeys |-> server_pubkeys, user_locations |-> user_locations,
     user_pubkeys |-> user_pubkeys, bootstrapped |-> bootstrapped]
SetNode(n) ==
    /\ servers' = n.servers
    /\ server_addrs' = n.server_addrs
    /\ server_pubkeys' = n.server_pubkeys
    /\ user_locations' = n.user_locations
    /\ user_pubkeys' = n.user_pubkeys
    /\ bootstrapped' = n.bootstrapped

\* ConnectionInfo::new(): no socket, no pubkey
PlainConn == [conn_type |-> "Unknown", socket |-> FALSE, pubkey |-> NoneStr]
\* g's entries inserted into f
Merge(f, g) ==
    [k \in DOMAIN f \cup DOMAIN g |-> IF k \in DOMAIN g THEN g[k] ELSE f[k]]
InsertIfAbsent(f, k, v) == IF k \in DOMAIN f THEN f ELSE Put(f, k, v)

ServerInfo(id, h, p, k) == [server_id |-> id, host |-> h, port |-> p, pubkey |-> k]
ClientInfo(u, k, sid) == [user_id |-> u, pubkey |-> k, server_id |-> sid]
\* the entries of a WELCOME list whose id parses, as a map keyed by that id
ServerIds(infos) == { i.server_id : i \in { j \in infos : IdFromStrOk(j.server_id) } }
InfoOf(infos, id) == CHOOSE i \in infos : i.server_id = id
AddrsOf(infos) ==
    [id \in ServerIds(infos) |-> <<InfoOf(infos, id).host, InfoOf(infos, id).port>>]
KeysOf(infos) == [id \in ServerIds(infos) |-> InfoOf(infos, id).pubkey]
ConnsOf(infos) == [id \in ServerIds(infos) |-> PlainConn]
ClientIds(cs) == { c.user_id : c \in { d \in cs : IdFromStrOk(d.user_id) } }
ClientOf(cs, u) == CHOOSE c \in cs : c.user_id = u
HomesOf(cs) == [u \in ClientIds(cs) |-> ClientOf(cs, u).server_id]
UserKeysOf(cs) == [u \in ClientIds(cs) |-> ClientOf(cs, u).pubkey]

\* handle_server_hello_join, the three inserts for the joining server
JoinerUpsertMut(n, m) ==
    [n EXCEPT !.servers = Put(@, m.from, PlainConn),
              !.server_addrs = Put(@, m.from, <<m.payload.host, m.payload.port>>)]
JoinerUpsert(n, m) ==
    [n EXCEPT !.servers = Put(@, m.from, PlainConn),
              !.server_addrs = Put(@, m.from, <<m.payload.host, m.payload.port>>),
              !.server_pubkeys = Put(@, m.from, m.payload.pubkey)]

\* the WELCOME lists: every other server with an address and a pubkey, every
\* user of user_locations that has an entry in user_pubkeys
WelcomeServersMut(n, joiner) ==
    { ServerInfo(id, n.server_addrs[id][1], n.server_addrs[id][2], n.server_pubkeys[id]) :
        id \in DOMAIN n.server_addrs \cap DOMAIN n.server_pubkeys }
WelcomeServers(n, joiner) ==
    { ServerInfo(id, n.server_addrs[id][1], n.server_addrs[id][2], n.server_pubkeys[id]) :
        id \in (DOMAIN n.server_addrs \cap DOMAIN n.server_pubkeys) \ {joiner} }
WelcomeClients(n) ==
    { ClientInfo(u, n.user_pubkeys[u], n.user_locations[u]) :
        u \in DOMAIN n.user_locations \cap DOMAIN n.user_pubkeys }
WelcomePayload(aid, ss, cs) == [assigned_id |-> aid, servers |-> ss, clients |-> cs]
ServerWelcome(n, self, pub, joiner, ts) ==
    Signed(Msg("SERVER_WELCOME", self, joiner, ts,
               WelcomePayload(joiner, WelcomeServers(n, joiner), WelcomeClients(n)),
               NoSig), pub)

\* handle_server_hello_join on this node: the joiner is recorded and the
\* WELCOME is written to the socket the HELLO_JOIN came on
handle_server_hello_join(m) ==
    /\ IF m.type # "SERVER_HELLO_JOIN"
       THEN /\ last' = Step("handle_server_hello_join", m, "",
                            InvalidPayloadType("ServerHelloJoin", TypeDebug(m.type)))
            /\ UNCHANGED <<fed, outbox>>
       ELSE IF ~IsId(m.from)
       THEN /\ last' = Step("handle_server_hello_join", m, "", PayloadExtraction)
            /\ UNCHANGED <<fed, outbox>>
       ELSE /\ servers' = JoinerUpsert(Node, m).servers
            /\ server_addrs' = JoinerUpsert(Node, m).server_addrs
            /\ server_pubkeys' = JoinerUpsert(Node, m).server_pubkeys
            /\ outbox' = outbox \cup
                 { Frame(m.from,
                         ServerWelcome(JoinerUpsert(Node, m), SelfId, server_pubkey,
                                       m.from, now), TRUE) }
            /\ last' = Step("handle_server_hello_join", m, "", Ok200(<<"ok">>))
    /\ UNCHANGED <<client_tables, now, dm_task, hb_task, since_poll,
                   user_pubkeys, bootstrapped, boot, introducer>>
    /\ UNCHANGED threads
    /\ UNCHANGED public_channel

\* handle_server_welcome, the WELCOME arriving on a web socket: the sender is
\* put into `servers` only, and only when absent; the listed servers go into
\* all three tables; the listed users into user_locations and user_pubkeys
SocketWelcome(n, m) ==
    LET n1 == IF IsId(m.from)
              THEN [n EXCEPT !.servers = InsertIfAbsent(@, m.from, PlainConn)]
              ELSE n
    IN [n1 EXCEPT
          !.server_addrs = Merge(@, AddrsOf(m.payload.servers)),
          !.server_pubkeys = Merge(@, KeysOf(m.payload.servers)),
          !.servers = Merge(ConnsOf(m.payload.servers), @),
          !.user_locations = Merge(@, HomesOf(m.payload.clients)),
          !.user_pubkeys = Merge(@, UserKeysOf(m.payload.clients)),
          !.bootstrapped = TRUE]

handle_server_welcome(m) ==
    /\ IF m.type # "SERVER_WELCOME"
       THEN /\ last' = Step("handle_server_welcome", m, "",
                            InvalidPayloadType("ServerWelcome", TypeDebug(m.type)))
            /\ UNCHANGED <<fed, user_locations, user_pubkeys, bootstrapped>>
       ELSE IF m.payload.assigned_id # SelfId /\ ~IdFromStrOk(m.payload.assigned_id)
       THEN /\ last' = Step("handle_server_welcome", m, "", PayloadExtraction)
            /\ UNCHANGED <<fed, user_locations, user_pubkeys, bootstrapped>>
       ELSE /\ SetNode(SocketWelcome(Node, m))
            /\ last' = Step("handle_server_welcome", m, "", Ok200(<<"ok">>))
    /\ UNCHANGED <<local_users, user_heartbeat, pending_messages, now, dm_task,
                   hb_task, since_poll, outbox, boot, introducer>>
    /\ UNCHANGED threads
    /\ UNCHANGED public_channel

\* ------------------------------------------------------- bootstrap_process
\* this node's own listen address, HOST and PORT of main
ThisHost == "h0"
ThisPort == 9000

\* the entry of config.bootstrap_servers the loop is at, and its
\* format!("{}:{}", bs.host, bs.port)
Candidate == boot.config[boot.idx]
PortStr(p) ==
    CASE p = 9000 -> "9000" [] p = 9001 -> "9001" [] p = 9002 -> "9002"
      [] OTHER -> "9003"
AddrStr(bs) == bs.host \o ":" \o PortStr(bs.port)
\* `continue` in the for loop: the next entry, or the end of the list
MoveOnMut(b) == [b EXCEPT !.pc = "start", !.reply = NoMsg]
MoveOn(b) ==
    IF b.idx < Len(b.config)
    THEN [b EXCEPT !.pc = "start", !.idx = @ + 1, !.reply = NoMsg]
    ELSE [b EXCEPT !.pc = "isolated"]

HelloJoinMsg ==
    Signed(Msg("SERVER_HELLO_JOIN", boot.server_id, AddrStr(Candidate), now,
               [host |-> ThisHost, port |-> ThisPort, pubkey |-> server_pubkey],
               NoSig), server_pubkey)
\* announce_to_network is handed the task's clone: from is its server_id
AnnounceMsg ==
    Signed(Msg("SERVER_ANNOUNCE", boot.server_id, BroadcastStr, now,
               AnnouncePayload(ThisHost, ThisPort, server_pubkey), NoSig),
           server_pubkey)

\* main with config.skip_bootstrap: the flag is set and no task is spawned
main_skip_bootstrap ==
    /\ boot.pc = "start"
    /\ boot.idx = 1
    /\ bootstrapped' = TRUE
    /\ boot' = [boot EXCEPT !.pc = "skipped"]
    /\ last' = Step("main", NoMsg, "", NoResp)
    /\ UNCHANGED <<client_tables, fed, now, dm_task, hb_task, since_poll,
                   user_pubkeys, outbox, introducer>>
    /\ UNCHANGED threads
    /\ UNCHANGED public_channel

\* connect_async succeeds and the signed HELLO_JOIN is written
bootstrap_hello_join ==
    /\ boot.pc = "start"
    /\ outbox' = outbox \cup {Frame(AddrStr(Candidate), HelloJoinMsg, TRUE)}
    /\ boot' = [boot EXCEPT !.pc = "wait"]
    /\ last' = Step("bootstrap_hello_join", HelloJoinMsg, "", NoResp)
    /\ UNCHANGED <<client_tables, fed, now, dm_task, hb_task, since_poll,
                   user_pubkeys, bootstrapped, introducer>>
    /\ UNCHANGED threads
    /\ UNCHANGED public_channel

\* the bootstrap node runs handle_server_hello_join on the frame and writes
\* its WELCOME to the same socket
introducer_hello_join ==
    /\ boot.pc = "wait"
    /\ boot.reply = NoMsg
    /\ AddrStr(Candidate) = BootstrapAddr
    /\ \E f \in outbox :
          /\ f.to = BootstrapAddr
          /\ f.msg.type = "SERVER_HELLO_JOIN"
          /\ introducer' = JoinerUpsert(introducer, f.msg)
          /\ boot' = [boot EXCEPT !.reply =
                        ServerWelcome(JoinerUpsert(introducer, f.msg), "s1",
                                      PeerPubkey("s1"), f.msg.from, now)]
    /\ last' = Step("introducer_hello_join", NoMsg, "", NoResp)
    /\ UNCHANGED <<client_tables, fed, now, dm_task, hb_task, since_poll,
                   user_pubkeys, bootstrapped, outbox>>
    /\ UNCHANGED threads
    /\ UNCHANGED public_channel

\* the bootstrap node had itself joined through s2 earlier: it knows s2 and
\* the user u2 that s2 hosts
IntroducerPast ==
    Msg("SERVER_WELCOME", "s2", "s1", 1,
        WelcomePayload("s1", {ServerInfo("s2", "h2", 9002, PeerPubkey("s2"))},
                       {ClientInfo("u2", "cpk2", "s2")}), NoSig)
introducer_welcome ==
    /\ boot.pc = "start"
    /\ introducer' = SocketWelcome(introducer, IntroducerPast)
    /\ introducer' # introducer
    /\ last' = Step("introducer_welcome", IntroducerPast, "", NoResp)
    /\ UNCHANGED <<client_tables, fed, now, dm_task, hb_task, since_poll,
                   user_pubkeys, bootstrapped, outbox, boot>>
    /\ UNCHANGED threads
    /\ UNCHANGED public_channel

\* a bootstrap node that assigns ids: it answers the HELLO_JOIN with a WELCOME
\* whose assigned_id is not the id the joiner claimed
introducer_reassigns(aid) ==
    /\ boot.pc = "wait"
    /\ boot.reply = NoMsg
    /\ AddrStr(Candidate) = BootstrapAddr
    /\ \E f \in outbox : f.to = BootstrapAddr /\ f.msg.type = "SERVER_HELLO_JOIN"
    /\ boot' = [boot EXCEPT !.reply =
                  Signed(Msg("SERVER_WELCOME", "s1", aid, now,
                             WelcomePayload(aid, {}, {}), NoSig), PeerPubkey("s1"))]
    /\ last' = Step("introducer_reassigns", NoMsg, "", NoResp)
    /\ UNCHANGED <<client_tables, fed, now, dm_task, hb_task, since_poll,
                   user_pubkeys, bootstrapped, outbox, introducer>>
    /\ UNCHANGED threads
    /\ UNCHANGED public_channel

\* connect_async fails, the send fails, the socket closes, or 10 s pass with
\* no text frame: the loop moves on and ends without success
bootstrap_failed ==
    /\ boot.pc = "start" \/ (boot.pc = "wait" /\ boot.reply = NoMsg)
    /\ boot' = MoveOn(boot)
    /\ last' = Step("bootstrap_failed", NoMsg, "", NoResp)
    /\ UNCHANGED <<client_tables, fed, now, dm_task, hb_task, since_poll,
                   user_pubkeys, bootstrapped, outbox, introducer>>
    /\ UNCHANGED threads
    /\ UNCHANGED public_channel

\* the WELCOME branch of bootstrap_process: the introducer goes into all
\* three tables with the configured address and pubkey; the listed servers go
\* into server_addrs and server_pubkeys; the listed users as in the handler
BootstrapWelcomeMut(n, m, bs) ==
    [SocketWelcome(n, m) EXCEPT !.bootstrapped = FALSE]
BootstrapWelcome(n, m, bs) ==
    [n EXCEPT
       !.servers = Put(@, m.from, PlainConn),
       !.server_addrs = Merge(Put(@, m.from, <<bs.host, bs.port>>),
                              AddrsOf(m.payload.servers)),
       !.server_pubkeys = Merge(Put(@, m.from, bs.pubkey),
                                KeysOf(m.payload.servers)),
       !.user_locations = Merge(@, HomesOf(m.payload.clients)),
       !.user_pubkeys = Merge(@, UserKeysOf(m.payload.clients))]

\* an assigned_id that differs from the clone's server_id replaces it when it
\* parses; when it does not, the loop moves on; when it does and the sender is
\* not an id, the loop moves on with the new server_id and no table written
AssignedOk(aid) == aid = boot.server_id \/ IdFromStrOk(aid)

\* serde_json::from_str(&text) and try_extract_payload::<ServerWelcomePayload>
Unparseable == [NoMsg EXCEPT !.type = "not json"]
WelcomePayloadOk(p) == DOMAIN p = {"assigned_id", "servers", "clients"}
IsWelcome(m) ==
    m # Unparseable /\ m.type = "SERVER_WELCOME" /\ WelcomePayloadOk(m.payload)

bootstrap_welcome ==
    /\ boot.pc = "wait"
    /\ boot.reply # NoMsg
    /\ IsWelcome(boot.reply)
    /\ IF AssignedOk(boot.reply.payload.assigned_id) /\ IsId(boot.reply.from)
       THEN /\ SetNode(BootstrapWelcome(Node, boot.reply, Candidate))
            /\ boot' = [boot EXCEPT !.pc = "joined",
                                    !.server_id = boot.reply.payload.assigned_id]
       ELSE /\ UNCHANGED <<fed, user_locations, user_pubkeys, bootstrapped>>
            /\ boot' = IF AssignedOk(boot.reply.payload.assigned_id)
                       THEN [MoveOn(boot) EXCEPT
                               !.server_id = boot.reply.payload.assigned_id]
                       ELSE MoveOn(boot)
    /\ last' = Step("bootstrap_welcome", boot.reply, "", NoResp)
    /\ UNCHANGED <<local_users, user_heartbeat, pending_messages, now, dm_task,
                   hb_task, since_poll, outbox, introducer>>
    /\ UNCHANGED threads
    /\ UNCHANGED public_channel

\* the candidate answers with a text frame
candidate_replies(m) ==
    /\ boot.pc = "wait"
    /\ boot.reply = NoMsg
    /\ boot' = [boot EXCEPT !.reply = m]
    /\ last' = Step("candidate_replies", m, "", NoResp)
    /\ UNCHANGED <<client_tables, fed, now, dm_task, hb_task, since_poll,
                   user_pubkeys, bootstrapped, outbox, introducer>>
    /\ UNCHANGED threads
    /\ UNCHANGED public_channel

\* the text does not parse, is not a SERVER_WELCOME, or its payload is not a
\* ServerWelcomePayload: the loop moves on
bootstrap_not_welcome ==
    /\ boot.pc = "wait"
    /\ boot.reply # NoMsg
    /\ ~IsWelcome(boot.reply)
    /\ boot' = MoveOn(boot)
    /\ last' = Step("bootstrap_not_welcome", boot.reply, "", NoResp)
    /\ UNCHANGED <<client_tables, fed, now, dm_task, hb_task, since_poll,
                   user_pubkeys, bootstrapped, outbox, introducer>>
    /\ UNCHANGED threads
    /\ UNCHANGED public_channel

\* after the loop: bootstrapped = true, then announce_to_network dials every
\* server of server_addrs but itself and writes the signed SERVER_ANNOUNCE
\* announce_to_network: every id of server_addrs that is not state.server_id
AnnounceTargetsMut(addrs, self) == DOMAIN addrs \cap {self}
AnnounceTargets(addrs, self) == DOMAIN addrs \ {self}

bootstrap_finish ==
    /\ boot.pc = "joined"
    /\ bootstrapped' = TRUE
    /\ outbox' = outbox \cup
         { Frame(sid, AnnounceMsg, TRUE) :
             sid \in AnnounceTargets(server_addrs, boot.server_id) }
    /\ boot' = [boot EXCEPT !.pc = "done"]
    /\ last' = Step("bootstrap_finish", AnnounceMsg, "", NoResp)
    /\ UNCHANGED <<client_tables, fed, now, dm_task, hb_task, since_poll,
                   user_pubkeys, introducer>>
    /\ UNCHANGED threads
    /\ UNCHANGED public_channel

\* ---------------------------------------------------- the public channel
\* chrono::Utc::now().timestamp(): the wall clock, in seconds since the epoch
Epoch == 1000
UtcNow == Epoch + now

\* if ring.len() >= 100 { ring.pop_front(); } ring.push_back(e);
RingPushMut(ring, e) ==
    IF Len(ring) > RingCap THEN Append(Tail(ring), e) ELSE Append(ring, e)
RingPush(ring, e) ==
    IF Len(ring) >= RingCap THEN Append(Tail(ring), e) ELSE Append(ring, e)

PublicChannelMessageHttpRequest(cid, from, content) ==
    [channel_id |-> cid, from |-> from, content |-> content]
PublicChannelMessagePayload(cid, from, content, at) ==
    [channel_id |-> cid, from |-> from, content |-> content, sent_at |-> at]

\* POST /api/public_channel/message: no check of the sender or the channel
public_channel_message_http(req) ==
    /\ Len(posted.messages) < MaxPosts
    /\ LET payload == PublicChannelMessagePayload(req.channel_id, req.from,
                                                  req.content, UtcNow)
       IN /\ public_channel_messages' = RingPush(public_channel_messages, payload)
          /\ posted' = [posted EXCEPT !.messages = Append(@, payload)]
    /\ last' = Step("public_channel_message_http", NoMsg, req.from,
                    Ok200(<<[status |-> "ok", delivered |-> TRUE]>>))
    /\ UNCHANGED <<client_tables, fed, now, dm_task, hb_task, since_poll, ext>>
    /\ UNCHANGED threads
    /\ UNCHANGED <<channel_info, public_channel_version, public_channel_file_events>>

\* POST /api/public_channel/file_start, /file_chunk, /file_end: the three
\* handlers have the same body and none looks at msg.payload_type
PublicFileEventQueued(op, m) ==
    /\ Len(posted.file_events) < MaxPosts
    /\ public_channel_file_events' = RingPush(public_channel_file_events, m)
    /\ posted' = [posted EXCEPT !.file_events = Append(@, m)]
    /\ last' = Step(op, m, "", Ok200(<<"ok">>))
    /\ UNCHANGED <<client_tables, fed, now, dm_task, hb_task, since_poll, ext>>
    /\ UNCHANGED threads
    /\ UNCHANGED <<channel_info, public_channel_version, public_channel_messages>>

public_channel_file_start(m) == PublicFileEventQueued("public_channel_file_start", m)
public_channel_file_chunk(m) == PublicFileEventQueued("public_channel_file_chunk", m)
public_channel_file_end(m) == PublicFileEventQueued("public_channel_file_end", m)

\* a query parameter that is present and parses as i64, or one that is missing
\* or does not parse
QInt(n) == [ok |-> TRUE, n |-> n]
QBad == [ok |-> FALSE, n |-> 0]
\* params.get("since").and_then(|s| s.parse::<i64>().ok()).unwrap_or(0)
SinceOf(q) == IF q.ok THEN q.n ELSE 0

\* .iter().filter(sent_at > since).filter(from != exclude_from).cloned().collect()
\* exclude is NoneStr when the parameter is missing
RECURSIVE MessagesSinceMut(_, _, _)
MessagesSinceMut(ring, since, exclude) ==
    IF ring = <<>> THEN <<>>
    ELSE LET m == Head(ring)
             rest == MessagesSinceMut(Tail(ring), since, exclude)
         IN IF m.sent_at >= since /\ (exclude = NoneStr \/ m.from # exclude)
            THEN <<m>> \o rest ELSE rest
RECURSIVE MessagesSince(_, _, _)
MessagesSince(ring, since, exclude) ==
    IF ring = <<>> THEN <<>>
    ELSE LET m == Head(ring)
             rest == MessagesSince(Tail(ring), since, exclude)
         IN IF m.sent_at > since /\ (exclude = NoneStr \/ m.from # exclude)
            THEN <<m>> \o rest ELSE rest

\* GET /api/public_channel/messages?since=..&exclude_from=..
poll_public_channel_messages(q, exclude) ==
    /\ last' = Step("poll_public_channel_messages",
                    Msg("", exclude, "", SinceOf(q), [none |-> TRUE], NoSig), "",
                    Ok200(MessagesSince(public_channel_messages, SinceOf(q), exclude)))
    /\ UNCHANGED <<client_tables, fed, now, dm_task, hb_task, since_poll, ext>>
    /\ UNCHANGED threads
    /\ UNCHANGED public_channel

\* .iter().filter(|msg| msg.ts.num_seconds() > since).cloned().collect()
RECURSIVE EventsSince(_, _)
EventsSince(ring, since) ==
    IF ring = <<>> THEN <<>>
    ELSE IF Head(ring).ts > since
         THEN <<Head(ring)>> \o EventsSince(Tail(ring), since)
         ELSE EventsSince(Tail(ring), since)

\* GET /api/public_channel/file_events?since=..
poll_public_channel_file_events(q) ==
    /\ last' = Step("poll_public_channel_file_events",
                    Msg("", "", "", SinceOf(q), [none |-> TRUE], NoSig), "",
                    Ok200(EventsSince(public_channel_file_events, SinceOf(q))))
    /\ UNCHANGED <<client_tables, fed, now, dm_task, hb_task, since_poll, ext>>
    /\ UNCHANGED threads
    /\ UNCHANGED public_channel

\* ------------------------------------- PUBLIC_CHANNEL_ADD, _UPDATED, _KEY_SHARE
\* serde: a String member is a JSON string, an Option<String> member may also
\* be null or missing, a TimeDelta member is given as a number here
IsString(j) == j.kind = "string"
IsOptString(j) == j.kind \in {"string", "null", "absent"}
IsTime(j) == j.kind = "number"
OptVal(j) == IF j.kind = "string" THEN j.val ELSE NoneStr

PublicChannelAddPayload(cid, name, desc, creator, at) ==
    [channel_id |-> cid, name |-> name, description |-> desc, creator |-> creator,
     created_at |-> at]
AddPayloadOk(p) ==
    /\ DOMAIN p = {"channel_id", "name", "description", "creator", "created_at"}
    /\ IsString(p.channel_id) /\ IsString(p.name) /\ IsOptString(p.description)
    /\ IsString(p.creator) /\ IsTime(p.created_at)

\* state.public_channel_version += 1
BumpVersionMut(v) == v + 2
BumpVersion(v) == v + 1

\* POST /api/public_channel/add
handle_public_channel_add(m) ==
    /\ public_channel_version < MaxVersion
    /\ IF m.type # "PUBLIC_CHANNEL_ADD"
       THEN /\ last' = Step("handle_public_channel_add", m, "",
                            InvalidPayloadType("PublicChannelAdd", TypeDebug(m.type)))
            /\ UNCHANGED <<channel_info, public_channel_version>>
       ELSE IF ~AddPayloadOk(m.payload)
       THEN /\ last' = Step("handle_public_channel_add", m, "", Deserialization)
            /\ UNCHANGED <<channel_info, public_channel_version>>
       ELSE /\ public_channel_id' = m.payload.channel_id.val
            /\ public_channel_name' = m.payload.name.val
            /\ public_channel_description' = OptVal(m.payload.description)
            /\ public_channel_members' =
                 public_channel_members \cup DOMAIN local_users
                   \cup (IF IdFromStrOk(m.payload.creator.val)
                         THEN {m.payload.creator.val} ELSE {})
            /\ public_channel_version' = BumpVersion(public_channel_version)
            /\ UNCHANGED public_channel_key
            /\ last' = Step("handle_public_channel_add", m, "", Ok200(<<m.payload>>))
    /\ UNCHANGED <<client_tables, fed, now, dm_task, hb_task, since_poll, ext>>
    /\ UNCHANGED threads
    /\ UNCHANGED <<public_channel_messages, public_channel_file_events, posted>>

PublicChannelUpdatedPayload(cid, name, desc, by, at) ==
    [channel_id |-> cid, name |-> name, description |-> desc, updated_by |-> by,
     updated_at |-> at]
UpdatedPayloadOk(p) ==
    /\ DOMAIN p = {"channel_id", "name", "description", "updated_by", "updated_at"}
    /\ IsString(p.channel_id) /\ IsOptString(p.name) /\ IsOptString(p.description)
    /\ IsString(p.updated_by) /\ IsTime(p.updated_at)

\* POST /api/public_channel/updated
handle_public_channel_updated(m) ==
    /\ public_channel_version < MaxVersion
    /\ IF m.type # "PUBLIC_CHANNEL_UPDATED"
       THEN /\ last' = Step("handle_public_channel_updated", m, "",
                            InvalidPayloadType("PublicChannelUpdated",
                                               TypeDebug(m.type)))
            /\ UNCHANGED <<channel_info, public_channel_version>>
       ELSE IF ~UpdatedPayloadOk(m.payload)
       THEN /\ last' = Step("handle_public_channel_updated", m, "", Deserialization)
            /\ UNCHANGED <<channel_info, public_channel_version>>
       ELSE /\ public_channel_id' = m.payload.channel_id.val
            /\ public_channel_name' =
                 IF IsString(m.payload.name) THEN m.payload.name.val
                 ELSE public_channel_name
            /\ public_channel_description' =
                 IF IsString(m.payload.description) THEN m.payload.description.val
                 ELSE public_channel_description
            /\ public_channel_version' = BumpVersion(public_channel_version)
            /\ UNCHANGED <<public_channel_key, public_channel_members>>
            /\ last' = Step("handle_public_channel_updated", m, "",
                            Ok200(<<m.payload>>))
    /\ UNCHANGED <<client_tables, fed, now, dm_task, hb_task, since_poll, ext>>
    /\ UNCHANGED threads
    /\ UNCHANGED <<public_channel_messages, public_channel_file_events, posted>>

PublicChannelKeySharePayload(cid, key, by, at) ==
    [channel_id |-> cid, key |-> key, shared_by |-> by, shared_at |-> at]
KeySharePayloadOk(p) ==
    /\ DOMAIN p = {"channel_id", "key", "shared_by", "shared_at"}
    /\ IsString(p.channel_id) /\ IsString(p.key) /\ IsString(p.shared_by)
    /\ IsTime(p.shared_at)

\* POST /api/public_channel/key_share
handle_public_channel_key_share(m) ==
    /\ IF m.type # "PUBLIC_CHANNEL_KEY_SHARE"
       THEN /\ last' = Step("handle_public_channel_key_share", m, "",
                            InvalidPayloadType("PublicChannelKeyShare",
                                               TypeDebug(m.type)))
            /\ UNCHANGED channel_info
       ELSE IF ~KeySharePayloadOk(m.payload)
       THEN /\ last' = Step("handle_public_channel_key_share", m, "", Deserialization)
            /\ UNCHANGED channel_info
       ELSE /\ public_channel_key' = m.payload.key.val
            /\ UNCHANGED <<public_channel_id, public_channel_name,
                           public_channel_description, public_channel_members>>
            /\ last' = Step("handle_public_channel_key_share", m, "",
                            Ok200(<<m.payload>>))
    /\ UNCHANGED <<client_tables, fed, now, dm_task, hb_task, since_poll, ext>>
    /\ UNCHANGED threads
    /\ UNCHANGED <<public_channel_version, public_channel_messages,
                   public_channel_file_events, posted>>

\* =========================================================== specifications
\* The mailbox: registration, direct messages, direct file events, polls.
MailDmInputs == { Dm(to, ts, GoodPayload) : to \in Users, ts \in {1, 2} }

Next ==
    \/ \E uid \in UserIdInputs : user_hello_http(uid, "cpk", NoneStr)
    \/ \E m \in MailDmInputs \cup DmRejects : direct_message_check(m)
    \/ direct_message_lookup
    \/ direct_message_push
    \/ \E uid \in UserIdInputs : poll_direct_messages_http(uid)
    \/ \E uid \in UserIdInputs : poll_file_events_http(uid)
    \/ \E to \in {"u1", BroadcastStr} :
          file_transfer_start_http(FileEvent("FILE_START", to))
    \/ file_transfer_chunk_http(FileEvent("FILE_CHUNK", "u1"))
    \/ file_transfer_end_http(FileEvent("FILE_END", "u1"))

Spec == Init /\ [][Next]_vars

\* Local delivery: what direct_message_http queues for each payload shape.
DeliverDmInputs == { Dm("u2", 1, p) : p \in {GoodPayload, OddPayload, BarePayload} }

NextDeliver ==
    \/ \E name \in {NoneStr, "alice"} : user_hello_http("u1", "cpk", name)
    \/ \E uid \in {"u2", NotUuid} : user_hello_http(uid, "", NoneStr)
    \/ \E m \in DeliverDmInputs : direct_message_check(m)
    \/ direct_message_lookup
    \/ direct_message_push
    \/ poll_direct_messages_http("u2")

SpecDeliver == Init /\ [][NextDeliver]_vars

\* Routing and the peer socket: a sender u1, a recipient u2 that is local,
\* advertised by the peer s1, or unknown; frames from s1 with and without a
\* signature; envelopes with the InvalidType sentinel.
PeerSigs(m) == {NoSig, ForgedSig, SignMessage(m, PeerPubkey(m.from))}
PeerFramesOf(m) == { [m EXCEPT !.sig = sg] : sg \in PeerSigs(m) }

AdvertiseFrames ==
    PeerFramesOf(Msg("USER_ADVERTISE", "s1", BroadcastStr, 5,
                     AdvertisePayload("u2", "s1"), NoSig))
RemoveFrames ==
    PeerFramesOf(Msg("USER_REMOVE", "s1", BroadcastStr, 6,
                     [user_id |-> "u2", server_id |-> "s1"], NoSig))
AnnounceFrames ==
    PeerFramesOf(Msg("SERVER_ANNOUNCE", "s1", BroadcastStr, 4,
                     AnnouncePayload("h1", 9001, PeerPubkey("s1")), NoSig))
InvalidTypeFrame == Msg("INVALID_TYPE", "u1", "u1", 3, FilePayload, NoSig)
RouteDmInputs == { Dm(to, 1, GoodPayload) : to \in Users }

NextRoute ==
    \/ \E uid \in Users : user_hello_http(uid, "cpk", NoneStr)
    \/ \E m \in AdvertiseFrames : handle_user_advertise(m)
    \/ \E m \in RemoveFrames : handle_user_remove(m)
    \/ \E m \in AnnounceFrames : handle_server_announce(m)
    \/ ws_invalid_type(InvalidTypeFrame)
    \/ \E m \in RouteDmInputs \cup DmRejects : direct_message_check(m)
    \/ direct_message_lookup
    \/ direct_message_push
    \/ file_transfer_start_http(InvalidTypeFrame)
    \/ \E uid \in Users : poll_direct_messages_http(uid)

SpecRoute == Init /\ [][NextRoute]_vars

\* Liveness bookkeeping: registration, client heartbeats, the sweep, the clock.
NextLive ==
    \/ \E uid \in Users : user_hello_http(uid, "cpk", NoneStr)
    \/ \E uid \in UserIdInputs : heartbeat_check(uid)
    \/ heartbeat_record
    \/ heartbeat_cleanup
    \/ Tick

SpecLive == Init /\ [][NextLive]_vars

\* The sweep with its interval timer: the task is spawned once in main and its
\* loop never exits, so a tick that is due is eventually run. Users register
\* over HTTP or over a web socket; one peer may be known.
SweepAnnounce ==
    Signed(Msg("SERVER_ANNOUNCE", "s1", BroadcastStr, 4,
               AnnouncePayload("h1", 9001, PeerPubkey("s1")), NoSig),
           PeerPubkey("s1"))

NextSweep ==
    \/ \E name \in {NoneStr, "alice"} : user_hello_http("u1", "cpk", name)
    \/ handle_user_hello(UserHello("u2"))
    \/ handle_server_announce(SweepAnnounce)
    \/ \E uid \in UserIdInputs : heartbeat_check(uid)
    \/ heartbeat_record
    \/ heartbeat_cleanup
    \/ Tick

SpecSweep ==
    Init /\ [][NextSweep]_vars /\ WF_vars(heartbeat_cleanup) /\ WF_vars(Tick)

\* Presence as peers report it: a user that registers here over HTTP or over
\* a socket, heartbeats and sweeps, and frames from s1 that name either user
\* on either peer, with the pubkey member a peer puts into its advertisement.
KeyedAdvertise(from, uid, sid) ==
    Signed(Msg("USER_ADVERTISE", from, BroadcastStr, 5,
               [user_id |-> uid, server_id |-> sid,
                meta |-> [display_name |-> NoneStr], pubkey |-> "cpk2"], NoSig),
           PeerPubkey(from))
UserRemove(from, uid, sid) ==
    Signed(Msg("USER_REMOVE", from, BroadcastStr, 6,
               [user_id |-> uid, server_id |-> sid], NoSig), PeerPubkey(from))
\* a WELCOME on a socket from s1 that lists s2 and the user u1 on s1
SocketWelcomeFrame ==
    Signed(Msg("SERVER_WELCOME", "s1", SelfId, 7,
               WelcomePayload(SelfId, {ServerInfo("s2", "h2", 9002, PeerPubkey("s2"))},
                              {ClientInfo("u1", "cpk2", "s1")}), NoSig),
           PeerPubkey("s1"))

NextPresence ==
    \/ \E name \in {NoneStr, "alice"} : user_hello_http("u1", "cpk", name)
    \/ handle_user_hello(UserHello("u1"))
    \/ heartbeat_check("u1")
    \/ heartbeat_record
    \/ heartbeat_cleanup
    \/ Tick
    \/ \E uid \in Users, sid \in Peers :
          handle_user_advertise(KeyedAdvertise("s1", uid, sid))
    \/ \E uid \in Users : handle_user_remove(UserRemove("s1", uid, "s1"))
    \/ handle_server_welcome(SocketWelcomeFrame)

SpecPresence == Init /\ [][NextPresence]_vars

\* Hand-off: users re-home between the peers s1 and s2; each peer advertises
\* and removes its own users; u1 may also register here over a socket.
NextHandoff ==
    \/ handle_user_hello(UserHello("u1"))
    \/ \E uid \in Users, sid \in Peers :
          handle_user_advertise(KeyedAdvertise(sid, uid, sid))
    \/ \E uid \in Users \cup {NotUuid}, sid \in Peers :
          handle_user_remove(UserRemove(sid, uid, sid))
    \/ handle_server_welcome(SocketWelcomeFrame)

SpecHandoff == Init /\ [][NextHandoff]_vars

\* Joining: this node is started with or without skip_bootstrap; when it
\* bootstraps it dials s1, which may or may not answer in time. Meanwhile
\* the peer s2 may join through this node or announce itself, and a WELCOME
\* from s1 may arrive on a socket. The bootstrap task is spawned once and
\* runs to its end, so its enabled steps are eventually taken.
PeerHelloJoin ==
    Signed(Msg("SERVER_HELLO_JOIN", "s2", "h0:9000", 3,
               [host |-> "h2", port |-> 9002, pubkey |-> PeerPubkey("s2")], NoSig),
           PeerPubkey("s2"))
PeerAnnounce ==
    Signed(Msg("SERVER_ANNOUNCE", "s2", BroadcastStr, 4,
               AnnouncePayload("h2", 9002, PeerPubkey("s2")), NoSig),
           PeerPubkey("s2"))
\* WELCOME frames whose assigned_id is this node's id, or does not parse
BootWelcomeFrames ==
    { SocketWelcomeFrame,
      [SocketWelcomeFrame EXCEPT !.payload.assigned_id = NotUuid] }

NextBoot ==
    \/ main_skip_bootstrap
    \/ bootstrap_hello_join
    \/ introducer_welcome
    \/ introducer_hello_join
    \/ bootstrap_failed
    \/ bootstrap_welcome
    \/ bootstrap_finish
    \/ handle_server_hello_join(PeerHelloJoin)
    \/ handle_server_announce(PeerAnnounce)
    \/ \E m \in BootWelcomeFrames : handle_server_welcome(m)

SpecBoot ==
    Init /\ [][NextBoot]_vars
         /\ WF_vars(bootstrap_welcome) /\ WF_vars(bootstrap_finish)

\* Answering a join: users register here over HTTP or on a socket, s1 reports
\* its user and sends a WELCOME on a socket, and s2 joins through this node.
NextJoin ==
    \/ user_hello_http("u1", "cpk", NoneStr)
    \/ handle_user_hello(UserHello("u2"))
    \/ handle_user_advertise(KeyedAdvertise("s1", "u2", "s1"))
    \/ handle_server_welcome(SocketWelcomeFrame)
    \/ handle_server_announce(SweepAnnounce)
    \/ handle_server_hello_join(PeerHelloJoin)

SpecJoin == Init /\ [][NextJoin]_vars

\* Announcements: either peer announces itself at its address or at a new
\* one, an announcement arrives whose sender is not an id, s2 also joins
\* through this node, and s1 reports a user and sends a WELCOME.
AnnounceAt(from, h) ==
    Signed(Msg("SERVER_ANNOUNCE", from, BroadcastStr, 4,
               AnnouncePayload(h, 9002, PeerPubkey("s2")), NoSig),
           PeerPubkey("s2"))
AnnounceInputs ==
    { AnnounceAt(from, h) : from \in Peers \cup {BroadcastStr}, h \in {"h2", "h7"} }

NextAnnounce ==
    \/ \E m \in AnnounceInputs : handle_server_announce(m)
    \/ handle_server_hello_join(PeerHelloJoin)
    \/ handle_server_welcome(SocketWelcomeFrame)
    \/ handle_user_advertise(KeyedAdvertise("s1", "u2", "s1"))

SpecAnnounce == Init /\ [][NextAnnounce]_vars

\* Identity: the node bootstraps through s1, which echoes the claimed id or
\* assigns another one; s2 joins and announces, a WELCOME naming another id
\* arrives on a socket, u2 registers on a socket and over HTTP and is sent a
\* direct message.
ReassigningWelcome ==
    [SocketWelcomeFrame EXCEPT !.payload.assigned_id = OtherId]

NextIdentity ==
    \/ bootstrap_hello_join
    \/ introducer_hello_join
    \/ \E aid \in {OtherId, NotUuid} : introducer_reassigns(aid)
    \/ bootstrap_failed
    \/ bootstrap_welcome
    \/ bootstrap_finish
    \/ handle_server_welcome(ReassigningWelcome)
    \/ handle_server_hello_join(PeerHelloJoin)
    \/ handle_server_announce(PeerAnnounce)
    \/ handle_user_hello(UserHello("u2"))
    \/ user_hello_http("u2", "cpk", NoneStr)
    \/ direct_message_check(Dm("u2", 1, GoodPayload))
    \/ direct_message_lookup
    \/ direct_message_push

SpecIdentity == Init /\ [][NextIdentity]_vars

\* The two rings of the public channel filled past their capacity; the k-th
\* post of each ring is told apart by its content or its ts.
RingRequest ==
    LET k == Len(posted.messages)
    IN PublicChannelMessageHttpRequest("c1", IF k % 2 = 0 THEN "u1" ELSE "u2", k)
RingEvent(ty) == Msg(ty, "u1", BroadcastStr, Len(posted.file_events), FilePayload, NoSig)

NextRing ==
    \/ public_channel_message_http(RingRequest)
    \/ Len(posted.file_events) % 3 = 0 /\ public_channel_file_start(RingEvent("FILE_START"))
    \/ Len(posted.file_events) % 3 = 1 /\ public_channel_file_chunk(RingEvent("FILE_CHUNK"))
    \/ Len(posted.file_events) % 3 = 2 /\ public_channel_file_end(RingEvent("FILE_END"))

SpecRing == Init /\ [][NextRing]_vars


\* The message ring polled: posts by two senders at different times, polls
\* with every shape of since and exclude_from.
SinceInputs == {QBad} \cup {QInt(Epoch + t) : t \in {0, SweepSecs, MaxTime}}
ExcludeInputs == {NoneStr} \cup Users

NextChannel ==
    \/ \E u \in Users :
          /\ Len(posted.messages) < MaxPolled
          /\ public_channel_message_http(
                 PublicChannelMessageHttpRequest("c1", u, Len(posted.messages)))
    \/ \E q \in SinceInputs, x \in ExcludeInputs : poll_public_channel_messages(q, x)
    \/ Tick

SpecChannel == Init /\ [][NextChannel]_vars

\* The channel's version: ADD, UPDATED and KEY_SHARE requests, accepted and
\* turned away, next to posts and polls of both rings.
ChannelMsg(ty, p) == Msg(ty, "u1", BroadcastStr, 5, p, NoSig)
AddInputs ==
    { ChannelMsg("PUBLIC_CHANNEL_ADD",
                 PublicChannelAddPayload(JStr("c1"), JStr("general"), d, JStr(c),
                                         JNum("5"))) :
        d \in {JStr("all"), JAbsent}, c \in {"u2", NotUuid} }
UpdatedInputs ==
    { ChannelMsg("PUBLIC_CHANNEL_UPDATED",
                 PublicChannelUpdatedPayload(JStr("c1"), n, JNull, JStr("u1"),
                                             JNum("5"))) :
        n \in {JStr("renamed"), JAbsent} }
KeyShareInputs ==
    { ChannelMsg("PUBLIC_CHANNEL_KEY_SHARE",
                 PublicChannelKeySharePayload(JStr("c1"), JStr("k1"), JStr("u1"),
                                              JNum("5"))) }
\* a payload that misses a required member, under each of the three types
MalformedInputs ==
    { ChannelMsg(ty, [channel_id |-> JStr("c1")]) :
        ty \in {"PUBLIC_CHANNEL_ADD", "PUBLIC_CHANNEL_UPDATED",
                "PUBLIC_CHANNEL_KEY_SHARE"} }

NextVersion ==
    \/ user_hello_http("u1", "cpk", NoneStr)
    \/ \E m \in AddInputs \cup UpdatedInputs \cup MalformedInputs :
          handle_public_channel_add(m)
    \/ \E m \in UpdatedInputs \cup KeyShareInputs \cup MalformedInputs :
          handle_public_channel_updated(m)
    \/ \E m \in KeyShareInputs \cup AddInputs \cup MalformedInputs :
          handle_public_channel_key_share(m)
    \/ /\ Len(posted.messages) < 1
       /\ public_channel_message_http(PublicChannelMessageHttpRequest("c1", "u1", 0))
    \/ /\ Len(posted.file_events) < 1
       /\ public_channel_file_start(RingEvent("FILE_START"))
    \/ poll_public_channel_messages(QBad, NoneStr)
    \/ poll_public_channel_file_events(QBad)

SpecVersion == Init /\ [][NextVersion]_vars

\* The direct file relay: two file_id streams for one recipient, direct
\* messages in between, both polls.
FileIds == {"f1", "f2"}
RelayPayload(f, i) == [file_id |-> f, index |-> i]
RelayEvent(ty, f, i, to) == Msg(ty, "u2", to, 4, RelayPayload(f, i), NoSig)

NextRelay ==
    \/ user_hello_http("u1", "cpk", NoneStr)
    \/ \E f \in FileIds, to \in {"u1", BroadcastStr} :
          file_transfer_start_http(RelayEvent("FILE_START", f, 0, to))
    \/ \E f \in FileIds, i \in {0, 1} :
          file_transfer_chunk_http(RelayEvent("FILE_CHUNK", f, i, "u1"))
    \/ \E f \in FileIds : file_transfer_end_http(RelayEvent("FILE_END", f, 0, "u1"))
    \/ direct_message_check(Dm("u1", 1, GoodPayload))
    \/ direct_message_lookup
    \/ direct_message_push
    \/ \E uid \in {"u1", NotUuid} : poll_file_events_http(uid)
    \/ poll_direct_messages_http("u1")

SpecRelay == Init /\ [][NextRelay]_vars

\* Three configured bootstrap servers: a node at h3 that fails or answers
\* wrongly, the node s1, and the node s2 behind them.
FirstServer == [host |-> "h3", port |-> 9003, pubkey |-> "pk_s3"]
LastServer == [host |-> "h2", port |-> 9002, pubkey |-> PeerPubkey("s2")]
ThreeServers == <<FirstServer, BootstrapServer, LastServer>>
WelcomeFrom(from, aid) ==
    Msg("SERVER_WELCOME", from, aid, 2, WelcomePayload(aid, {}, {}), NoSig)
CandidateReplies ==
    { Unparseable,
      Msg("SERVER_ANNOUNCE", "s1", BroadcastStr, 2,
          AnnouncePayload("h1", 9001, PeerPubkey("s1")), NoSig),
      Msg("SERVER_WELCOME", "s1", SelfId, 2, [none |-> TRUE], NoSig),
      WelcomeFrom("s1", NotUuid),
      WelcomeFrom(BroadcastStr, SelfId),
      WelcomeFrom(BroadcastStr, OtherId),
      WelcomeFrom("s1", SelfId) }

NextCandidates ==
    \/ bootstrap_hello_join
    \/ bootstrap_failed
    \/ \E m \in CandidateReplies : candidate_replies(m)
    \/ introducer_welcome
    \/ introducer_hello_join
    \/ bootstrap_welcome
    \/ bootstrap_not_welcome
    \/ bootstrap_finish
    \/ user_hello_http("u1", "cpk1", NoneStr)

SpecCandidates ==
    InitWith(ThreeServers) /\ [][NextCandidates]_vars
       /\ WF_vars(bootstrap_welcome) /\ WF_vars(bootstrap_not_welcome)
       /\ WF_vars(bootstrap_finish) /\ WF_vars(bootstrap_hello_join \/ bootstrap_failed)
       /\ WF_vars(bootstrap_failed)

\* Forwarded deliveries: u1 registers over HTTP or on a socket, the peer s1
\* announces itself and advertises u2, and s1 hands over SERVER_DELIVER frames
\* for u1, for u2, and with a user_id that does not parse.
ServerDeliver(uid) ==
    Msg("SERVER_DELIVER", "s1", SelfId, 7, ServerDeliverPayload(uid), NoSig)
DeliverFrames ==
    { ServerDeliver(uid) : uid \in Users \cup {NotUuid} }
        \cup { Msg("SERVER_DELIVER", "s1", SelfId, 7, [user_id |-> "u1"], NoSig),
               Msg("USER_DELIVER", "s1", "u1", 7, ServerDeliverPayload("u1"), NoSig) }

NextForward ==
    \/ \E name \in {NoneStr, "alice"} : user_hello_http("u1", "cpk", name)
    \/ handle_user_hello(UserHello("u1"))
    \/ \E sid \in {"s1", "s2"} :
          handle_user_advertise(Msg("USER_ADVERTISE", "s1", BroadcastStr, 5,
                                    AdvertisePayload("u2", sid), NoSig))
    \/ handle_server_announce(Msg("SERVER_ANNOUNCE", "s1", BroadcastStr, 4,
                                  AnnouncePayload("h1", 9001, PeerPubkey("s1")),
                                  NoSig))
    \/ \E m \in DeliverFrames : handle_server_deliver(m)
    \/ \E uid \in Users : poll_direct_messages_http(uid)

SpecForward == Init /\ [][NextForward]_vars

\* Direct messages while the sweep runs: u1 and u2 register over HTTP, u1
\* writes to u2, the clock advances and the sweep ticks between the lock
\* blocks of the handler.
NextMailRace ==
    \/ \E uid \in Users : user_hello_http(uid, "cpk", NoneStr)
    \/ direct_message_check(Dm("u2", 1, GoodPayload))
    \/ direct_message_lookup
    \/ direct_message_push
    \/ heartbeat_cleanup
    \/ Tick
    \/ poll_direct_messages_http("u2")
    \/ heartbeat_check("u2")
    \/ heartbeat_record
    \/ handle_server_announce(SweepAnnounce)

SpecMailRace == Init /\ [][NextMailRace]_vars

\* The default configuration: the one bootstrap server is 127.0.0.1:8080 with
\* an empty pubkey, the address this node listens on by default. The node
\* dials itself and its own socket handler answers the HELLO_JOIN once; the
\* peer s1 or the node itself is named as the sender of ANNOUNCE frames.
OwnServer == [host |-> ThisHost, port |-> ThisPort, pubkey |-> ""]
NextSelf ==
    \/ bootstrap_hello_join
    \/ bootstrap_failed
    \/ \E f \in outbox :
          /\ f.msg.type = "SERVER_HELLO_JOIN"
          /\ f.to = AddrStr(OwnServer)
          /\ \A g \in outbox : g.msg.type # "SERVER_WELCOME"
          /\ handle_server_hello_join(f.msg)
    \/ \E f \in outbox :
          /\ f.msg.type = "SERVER_WELCOME"
          /\ f.to = boot.server_id
          /\ candidate_replies(f.msg)
    \/ bootstrap_welcome
    \/ bootstrap_finish
    \/ \E from \in {SelfId, "s1"}, h \in {"h1", "h7"} :
          handle_server_announce(AnnounceAt(from, h))

SpecSelf == InitWith(<<OwnServer>>) /\ [][NextSelf]_vars

\* ------------------------------------------------------------ the mutexes
\* Every lock() of a task in program order, the point where its guard is
\* dropped, and every .await in between. A temporary guard is dropped at the
\* end of its statement, a named guard at the end of its block, in reverse
\* order of declaration.
Take(l) == <<[op |-> "lock", lock |-> l]>>
Drop(l) == <<[op |-> "unlock", lock |-> l]>>
Await(io) == <<[op |-> "await", lock |-> io]>>
Temp(l) == Take(l) \o Drop(l)

\* list_users_http: the state guard, then local_users, then user_locations,
\* all three alive until the response is built
list_users_locksMut ==
    Take("state") \o Take("user_locations") \o Take("local_users")
        \o Drop("local_users") \o Drop("user_locations") \o Drop("state")
list_users_locks ==
    Take("state") \o Take("local_users") \o Take("user_locations")
        \o Drop("user_locations") \o Drop("local_users") \o Drop("state")
\* user_hello_http: under the state guard, one statement per table
user_hello_locks ==
    Take("state") \o Temp("local_users") \o Temp("user_locations") \o Drop("state")
\* one round of the sweep loop that removes a user
heartbeat_cleanup_locks ==
    Await("interval.tick") \o Take("state") \o Temp("local_users")
        \o Temp("user_locations") \o Drop("state")
\* ws_handle_socket clones the state under its guard; the handler then works
\* on the clone and writes the WELCOME to the socket last
server_hello_join_locks ==
    Temp("state") \o Temp("servers") \o Temp("server_addrs")
        \o Temp("server_pubkeys")
        \o Take("server_addrs") \o Take("server_pubkeys")
        \o Drop("server_pubkeys") \o Drop("server_addrs")
        \o Take("user_locations") \o Take("user_pubkeys")
        \o Drop("user_pubkeys") \o Drop("user_locations")
        \o Await("socket.send")
\* main clones the state for the task; one successful candidate with one
\* listed server and one listed client, then announce_to_network
bootstrap_locks ==
    Temp("state") \o Await("connect_async") \o Await("write.send")
        \o Await("read.next")
        \o Temp("servers") \o Temp("server_addrs") \o Temp("server_pubkeys")
        \o Temp("server_addrs") \o Temp("server_pubkeys")
        \o Temp("user_locations") \o Temp("user_pubkeys")
        \o Await("write.close") \o Temp("bootstrapped") \o Temp("server_addrs")
        \o Await("connect_async") \o Await("write.send") \o Await("write.close")

Script(t) ==
    CASE t = "list_users_http" -> list_users_locks
      [] t = "user_hello_http" -> user_hello_locks
      [] t = "heartbeat_cleanup" -> heartbeat_cleanup_locks
      [] t = "handle_server_hello_join" -> server_hello_join_locks
      [] OTHER -> bootstrap_locks

\* a handler runs again for the next request and the sweep loops; the
\* bootstrap task runs once
Running(t) == threads[t].pc <= Len(Script(t))
NextOp(t) == Script(t)[threads[t].pc]
Wants(t, kind) == Running(t) /\ NextOp(t).op = kind
Holder(l) == {u \in TaskNames : l \in threads[u].held}
Advance(t, held) ==
    [threads EXCEPT ![t] =
        [pc |-> IF @.pc = Len(Script(t)) /\ t # "bootstrap_process"
                THEN 1 ELSE @.pc + 1,
         held |-> held]]
RestOfState ==
    <<tables, now, dm_task, hb_task, since_poll, bootstrapped, outbox, boot,
      introducer>>

\* Mutex::lock returns once no task holds the mutex
thread_lock(t) ==
    /\ Wants(t, "lock")
    /\ Holder(NextOp(t).lock) = {}
    /\ threads' = Advance(t, threads[t].held \cup {NextOp(t).lock})
    /\ last' = Step("thread_lock", NoMsg, t, NoResp)
    /\ UNCHANGED RestOfState
    /\ UNCHANGED public_channel

\* the guard goes out of scope
thread_unlock(t) ==
    /\ Wants(t, "unlock")
    /\ threads' = Advance(t, threads[t].held \ {NextOp(t).lock})
    /\ last' = Step("thread_unlock", NoMsg, t, NoResp)
    /\ UNCHANGED RestOfState
    /\ UNCHANGED public_channel

\* the future that is awaited resolves
thread_await(t) ==
    /\ Wants(t, "await")
    /\ threads' = Advance(t, threads[t].held)
    /\ last' = Step("thread_await", NoMsg, t, NoResp)
    /\ UNCHANGED RestOfState
    /\ UNCHANGED public_channel

NextLocks ==
    \/ \E t \in TaskNames : thread_lock(t)
    \/ \E t \in TaskNames : thread_unlock(t)
    \/ \E t \in TaskNames : thread_await(t)

SpecLocks == Init /\ [][NextLocks]_vars

\* ================================================================== claims
QueueIn(pm, u) == GetOr(pm, u, <<>>)
PollOps == {"poll_direct_messages_http", "poll_file_events_http"}
FileOps == {"file_transfer_start_http", "file_transfer_chunk_http",
            "file_transfer_end_http"}

\* the USER_DELIVER envelope d is the delivery of the accepted MSG_DIRECT m
IsDeliveryOf(d, m) ==
    /\ d.type = "USER_DELIVER"
    /\ d.to = m.to
    /\ d.ts = m.ts
    /\ m.payload.ciphertext.kind = "string" =>
           d.payload.ciphertext = m.payload.ciphertext

IsDm(a) == a.kind = "dm"
DeliversInOrder(body, dms) ==
    /\ Len(body) = Len(dms)
    /\ \A i \in 1..Len(dms) : IsDeliveryOf(body[i], dms[i].msg)

\* C1 as stated: a poll of u returns exactly the direct messages accepted for
\* u since u's previous poll, in the order accepted (so a poll that follows a
\* poll at once returns the empty list).
C1_DrainOnlyDirect ==
    [][(last'.op = "poll_direct_messages_http" /\ last'.user \in Users)
         => DeliversInOrder(last'.resp.body,
                            SelectSeq(since_poll[last'.user], IsDm))]_vars

\* C1 amended: when nothing but direct messages was accepted for u since u's
\* previous poll (no direct file event in between), a poll of u returns
\* exactly those messages as USER_DELIVER in the order accepted and leaves
\* the queue empty; with nothing accepted it returns the empty list.
C1_MailboxDrain ==
    [][(/\ last'.op = "poll_direct_messages_http"
        /\ last'.user \in Users
        /\ \A i \in 1..Len(since_poll[last'.user]) :
               IsDm(since_poll[last'.user][i]))
         => /\ DeliversInOrder(last'.resp.body, since_poll[last'.user])
            /\ QueueIn(pending_messages', last'.user) = <<>>]_vars

\* C1 witness: a poll has just returned two different direct messages
C1_Witness ==
    /\ last.op = "poll_direct_messages_http"
    /\ Len(last.resp.body) = 2
    /\ last.resp.body[1].type = "USER_DELIVER"
    /\ last.resp.body[2].type = "USER_DELIVER"
    /\ last.resp.body[1].ts # last.resp.body[2].ts
    /\ Queue(last.user) = <<>>

\* C2: a queue changes only by one envelope appended at its tail or by a poll
\* of its user that returns the whole queue in order and empties it in the
\* same step; so every queued envelope is returned by exactly one poll.
C2_AtomicDrain ==
    [][\A u \in Uuids :
          LET q == Queue(u)
              r == QueueIn(pending_messages', u)
          IN /\ \/ r = q
                \/ Len(r) = Len(q) + 1 /\ SubSeq(r, 1, Len(q)) = q
                \/ /\ last'.op \in PollOps
                   /\ last'.user = u
                   /\ last'.resp.body = q
                   /\ r = <<>>
             /\ (last'.op \in PollOps /\ last'.user = u)
                   => last'.resp.body = q /\ r = <<>>]_vars

\* C2 witness: one poll returned a direct message and a file event together
C2_Witness ==
    /\ last.op \in PollOps
    /\ Len(last.resp.body) = 2
    /\ last.resp.body[1].type # last.resp.body[2].type
    /\ Queue(last.user) = <<>>

\* the envelope a step appended to the queue of u
Pushed(u) == LET q == QueueIn(pending_messages', u) IN q[Len(q)]
DmAccepted == last'.op = "direct_message_http" /\ last'.resp.status = 200
EndToEnd == {"ciphertext", "sender_pub", "content_sig"}

\* C3 as stated: the envelope queued for an accepted MSG_DIRECT is a
\* USER_DELIVER from this server to the recipient with the original ts, and
\* every ciphertext, sender_pub and content_sig value the client supplied is in
\* its payload unchanged.
C3_PassThrough ==
    [][DmAccepted =>
         LET m == last'.msg
             d == Pushed(m.to)
         IN /\ d.type = "USER_DELIVER"
            /\ d.from = SelfId
            /\ d.to = m.to
            /\ d.ts = m.ts
            /\ \A k \in EndToEnd :
                   m.payload[k].kind # "absent" => d.payload[k] = m.payload[k]]_vars

\* C3 amended: the queue of the recipient grows by one USER_DELIVER from this
\* server to the recipient with the original ts; its ciphertext and
\* content_sig are the supplied values unchanged (JSON null when the member is
\* missing); its sender_pub is the supplied value only when that is a JSON
\* string, and the empty string otherwise.
C3_LocalDelivery ==
    [][DmAccepted =>
         LET m == last'.msg
             d == Pushed(m.to)
         IN /\ QueueIn(pending_messages', m.to) = Append(Queue(m.to), d)
            /\ d.type = "USER_DELIVER"
            /\ d.from = SelfId
            /\ d.to = m.to
            /\ d.ts = m.ts
            /\ \A k \in {"ciphertext", "content_sig"} :
                   d.payload[k] = IF m.payload[k].kind = "absent"
                                  THEN JNull ELSE m.payload[k]
            /\ d.payload.sender_pub =
                   IF m.payload.sender_pub.kind = "string"
                   THEN m.payload.sender_pub ELSE JStr("")]_vars

\* C3 witness: a MSG_DIRECT whose sender_pub is a JSON number was accepted and
\* its delivery is at the tail of the recipient's queue
C3_Witness ==
    /\ last.op = "direct_message_http"
    /\ last.resp.status = 200
    /\ last.msg.payload = OddPayload
    /\ Len(Queue("u2")) > 0
    /\ Queue("u2")[Len(Queue("u2"))].payload.ciphertext = JStr("c2")
    /\ Queue("u2")[Len(Queue("u2"))].payload.sender_pub = JStr("")

\* POST /api/direct_message answered a well-formed MSG_DIRECT in this step
DmAnswered ==
    /\ last'.op = "direct_message_http"
    /\ last'.msg.type = "MSG_DIRECT"
    /\ IsId(last'.msg.from)
    /\ IsId(last'.msg.to)

\* C4 as stated: a MSG_DIRECT whose recipient is not local but whose
\* user_locations entry names a peer server is not rejected.
C4_RemoteForward ==
    [][(/\ DmAnswered
        /\ last'.msg.to \notin DOMAIN local_users
        /\ GetOr(user_locations, last'.msg.to, NoneStr) \in Peers)
         => last'.resp.status # 400]_vars

\* C5 as stated: a MSG_DIRECT whose recipient is neither local nor mapped is
\* answered with the error USER_NOT_FOUND and changes no table.
C5_UserNotFound ==
    [][(/\ DmAnswered
        /\ last'.msg.to \notin DOMAIN local_users
        /\ last'.msg.to \notin DOMAIN user_locations)
         => /\ last'.resp.err = "USER_NOT_FOUND"
            /\ UNCHANGED tables]_vars

DmOps == {"direct_message_http", "direct_message_check", "direct_message_lookup"}

\* C6: every step of POST /api/direct_message on an envelope whose type is not
\* MSG_DIRECT is the 400 answer InvalidPayloadType{expected: MsgDirect,
\* actual: the Debug form of its type}, and leaves every table unchanged.
C6_TypeMismatch ==
    [][(last'.op \in DmOps /\ last'.msg.type # "MSG_DIRECT")
         => /\ last'.op = "direct_message_http"
            /\ last'.resp.status = 400
            /\ last'.resp = InvalidPayloadType("MsgDirect", TypeDebug(last'.msg.type))
            /\ UNCHANGED tables]_vars

\* C6 witness: a HEARTBEAT envelope for a registered recipient was turned away
C6_Witness ==
    /\ last.op = "direct_message_http"
    /\ last.msg.type = "HEARTBEAT"
    /\ last.msg.to \in DOMAIN local_users
    /\ last.resp.status = 400
    /\ last.resp.expected = "MsgDirect"
    /\ last.resp.actual = "Heartbeat"

\* C7 as stated: no step taken on an envelope that carries the InvalidType
\* sentinel changes a table.
C7_InvalidTypeInert ==
    [][last'.msg.type = "INVALID_TYPE" => UNCHANGED tables]_vars

\* C8 as stated: every USER_DELIVER the server queued carries a signature
\* that verifies over the cleared envelope under the server's public key.
C8_ServerSigned ==
    \A u \in DOMAIN pending_messages :
        \A i \in 1..Len(pending_messages[u]) :
            pending_messages[u][i].type = "USER_DELIVER"
                => VerifySig(pending_messages[u][i], server_pubkey)

PeerOps == {"handle_user_advertise", "handle_user_remove", "handle_server_announce"}
\* the public key pinned for a peer id
PinnedKey(id) == GetOr(server_pubkeys, id, NoneStr)

\* C9 as stated: a control envelope from a peer whose sig does not verify
\* under the key pinned for its from id changes no table.
C9_OnlyVerified ==
    [][(/\ last'.op \in PeerOps
        /\ ~VerifySig(last'.msg, PinnedKey(last'.msg.from)))
         => UNCHANGED tables]_vars

\* C10: a heartbeat request for a well-formed id goes on to the recording step
\* exactly when the id is in local_users, and otherwise answers "not found"
\* with every table unchanged; the recording step sets user_heartbeat of that
\* user to the current time, changes nothing else and answers "ok".
C10_ClientHeartbeat ==
    [][/\ (/\ last'.op \in {"heartbeat_http", "heartbeat_check"}
           /\ hb_task.pc = "idle"
           /\ IdFromStrOk(last'.user))
          => IF last'.user \in DOMAIN local_users
             THEN /\ hb_task'.pc = "record"
                  /\ hb_task'.user = last'.user
                  /\ UNCHANGED tables
             ELSE /\ last'.resp.body = <<"not found">>
                  /\ hb_task'.pc = "idle"
                  /\ UNCHANGED tables
       /\ (hb_task.pc = "record" /\ hb_task'.pc = "idle")
          => /\ last'.op = "heartbeat_http"
             /\ last'.user = hb_task.user
             /\ last'.resp.body = <<"ok">>
             /\ user_heartbeat' = Put(user_heartbeat, hb_task.user, now)
             /\ UNCHANGED <<local_users, user_locations, pending_messages, fed>>]_vars

\* C10 witness: a heartbeat was just recorded at a later time than the hello
C10_Witness ==
    /\ last.op = "heartbeat_http"
    /\ last.resp.body = <<"ok">>
    /\ last.user \in DOMAIN local_users
    /\ now > 0
    /\ user_heartbeat[last.user] = now

\* C11: a sweep tick removes every user whose heartbeat is more than 45 s old
\* from local_users, user_locations and user_heartbeat; and since ticks recur,
\* a user whose heartbeat is that old is eventually not listed by
\* GET /api/users/online, unless a heartbeat refreshed it first.
HeartbeatOlderThan45(u) ==
    u \in DOMAIN user_heartbeat /\ now - user_heartbeat[u] > StaleSecs
SweptOut(u) ==
    /\ u \notin DOMAIN local_users'
    /\ u \notin DOMAIN user_locations'
    /\ u \notin DOMAIN user_heartbeat'
C11_TickRemoves ==
    last'.op = "heartbeat_cleanup" =>
        \A u \in Users : HeartbeatOlderThan45(u) => SweptOut(u)
C11_StaleSweep ==
    /\ [][C11_TickRemoves]_vars
    /\ \A u \in Users :
          HeartbeatOlderThan45(u) ~> (~Listed(u) \/ ~HeartbeatOlderThan45(u))
\* a sweep just removed u1, whose heartbeat was a full minute old
C11_Witness ==
    /\ last.op = "heartbeat_cleanup"
    /\ now = 60
    /\ ~Listed("u1")
    /\ "u1" \notin DOMAIN user_heartbeat
    /\ Listed("u2")

\* C12: every removal of a local user by the sweep is followed by a
\* USER_REMOVE{user_id, server_id = self} composed for every known peer.
SweptBy(u) ==
    /\ last.op = "heartbeat_cleanup"
    /\ \E i \in 1..Len(last.resp.body) : last.resp.body[i] = u
RemoveComposedFor(u, sid) ==
    \E f \in outbox :
        /\ f.to = sid
        /\ f.msg.type = "USER_REMOVE"
        /\ f.msg.payload = [user_id |-> u, server_id |-> SelfId]
C12_RemovalGossip ==
    \A u \in Users : \A sid \in Peers :
        (SweptBy(u) /\ sid \in DOMAIN servers) ~> RemoveComposedFor(u, sid)

\* C13: after a successful POST /api/user_hello for a valid id u, u is in
\* local_users with the supplied pubkey pinned, user_locations[u] is the
\* marker "local", and user_heartbeat[u] is the current time.
HelloHttpOk ==
    last'.op = "user_hello_http" /\ last'.resp.body = <<"ok">>
C13_UserArrival ==
    [][HelloHttpOk =>
         /\ last'.user \in DOMAIN local_users'
         /\ local_users'[last'.user].pubkey = "cpk"
         /\ user_heartbeat'[last'.user] = now'
         /\ user_locations'[last'.user] = "local"]_vars

\* C14: in every reachable state a user id is in local_users if and only if
\* user_locations maps it to "local".
HomeIsLocal(u) == u \in DOMAIN user_locations /\ user_locations[u] = "local"
C14_HomeInvariant ==
    \A u \in Users : (u \in DOMAIN local_users) <=> HomeIsLocal(u)

\* C15: every successful user hello, over HTTP or on a socket, is followed by
\* a signed USER_ADVERTISE with to = Broadcast and payload {user_id,
\* server_id = self, meta} composed for every peer known at that time.
HelloOk(u) ==
    /\ last.op \in {"user_hello_http", "handle_user_hello"}
    /\ last.user = u
    /\ last.resp.body = <<"ok">>
AdvertiseComposedFor(u, sid) ==
    \E f \in outbox :
        /\ f.to = sid
        /\ f.msg.type = "USER_ADVERTISE"
        /\ f.msg.to = BroadcastStr
        /\ f.msg.payload.user_id = u
        /\ f.msg.payload.server_id = SelfId
        /\ VerifySig(f.msg, server_pubkey)
C15_PresenceGossip ==
    \A u \in Users : \A sid \in Peers :
        (HelloOk(u) /\ sid \in DOMAIN servers) ~> AdvertiseComposedFor(u, sid)

\* C16: after a USER_ADVERTISE for user u sent by server s is processed,
\* user_locations[u] = s and user_pubkeys[u] is the key announced for u.
AdvertiseStep ==
    /\ last'.op = "handle_user_advertise"
    /\ IdFromStrOk(last'.msg.payload.user_id)
C16_RemoteView ==
    [][AdvertiseStep =>
         LET u == last'.msg.payload.user_id
         IN /\ user_locations'[u] = last'.msg.from
            /\ u \in DOMAIN user_pubkeys'
            /\ user_pubkeys'[u] = last'.msg.payload.pubkey]_vars

\* C17: a USER_REMOVE{u, s} deletes user_locations[u] exactly when it equals
\* s and changes no other table; so ADVERTISE(u, B) followed by the late
\* REMOVE(u, A) leaves user_locations[u] = B, and a REMOVE for an unmapped
\* user changes nothing.
RemoveStep == last'.op = "handle_user_remove"
C17_OnlyIfPointing ==
    RemoveStep =>
        LET u == last'.msg.payload.user_id
            s == last'.msg.payload.server_id
        IN /\ IF u \in DOMAIN user_locations /\ user_locations[u] = s
              THEN user_locations' =
                       [x \in DOMAIN user_locations \ {u} |-> user_locations[x]]
              ELSE UNCHANGED user_locations
           /\ UNCHANGED <<local_users, user_heartbeat, pending_messages, fed,
                          user_pubkeys>>
C17_LateRemove ==
    (/\ RemoveStep
     /\ last.op = "handle_user_advertise"
     /\ last.msg.payload.user_id = last'.msg.payload.user_id
     /\ last.msg.payload.server_id # last'.msg.payload.server_id)
    => user_locations'[last.msg.payload.user_id] = last.msg.payload.server_id
C17_HandOff == [][C17_OnlyIfPointing /\ C17_LateRemove]_vars
\* the late REMOVE(u2, s1) was processed and u2 is still homed on s2
C17_Witness ==
    /\ last.op = "handle_user_remove"
    /\ last.msg.payload = [user_id |-> "u2", server_id |-> "s1"]
    /\ "u2" \in DOMAIN user_locations
    /\ user_locations["u2"] = "s2"

\* C18: processing the same USER_REMOVE envelope a second time, directly
\* after the first, changes none of user_locations, local_users,
\* user_pubkeys and the pending queues.
SameRemoveAgain ==
    /\ last.op = "handle_user_remove"
    /\ last'.op = "handle_user_remove"
    /\ last'.msg = last.msg
C18_RemoveIdempotent ==
    [][SameRemoveAgain =>
         UNCHANGED <<user_locations, local_users, user_pubkeys,
                     pending_messages>>]_vars
\* REMOVE(u2, s1) has removed u2 while u1 is still homed on s1
C18_Witness ==
    /\ last.op = "handle_user_remove"
    /\ last.msg.payload = [user_id |-> "u2", server_id |-> "s1"]
    /\ "u2" \notin DOMAIN user_locations
    /\ "u1" \in DOMAIN user_locations
    /\ user_locations["u1"] = "s1"

\* C19: after every completed handler, every server id in `servers` also has
\* an entry in server_addrs and in server_pubkeys.
C19_PeerTables ==
    DOMAIN servers \subseteq (DOMAIN server_addrs \cap DOMAIN server_pubkeys)

\* C20: once the bootstrap node s1 has answered this node's HELLO_JOIN with a
\* WELCOME, eventually s1's tables hold this node with its advertised host,
\* port and pubkey, this node's tables hold s1 with the configured host,
\* port and pubkey, and bootstrapped is true.
Answered ==
    /\ boot.pc = "wait"
    /\ boot.reply # NoMsg
    /\ boot.reply.type = "SERVER_WELCOME"
IntroducerHasJoiner ==
    /\ SelfId \in DOMAIN introducer.servers
    /\ SelfId \in DOMAIN introducer.server_addrs
    /\ introducer.server_addrs[SelfId] = <<ThisHost, ThisPort>>
    /\ SelfId \in DOMAIN introducer.server_pubkeys
    /\ introducer.server_pubkeys[SelfId] = server_pubkey
JoinerHasIntroducer ==
    /\ "s1" \in DOMAIN servers
    /\ "s1" \in DOMAIN server_addrs
    /\ server_addrs["s1"] = <<BootstrapServer.host, BootstrapServer.port>>
    /\ "s1" \in DOMAIN server_pubkeys
    /\ server_pubkeys["s1"] = BootstrapServer.pubkey
C20_BootstrapScenario ==
    Answered ~> (IntroducerHasJoiner /\ JoinerHasIntroducer /\ bootstrapped)
\* the bootstrap task has finished; both nodes know each other and this node
\* has also learned s2 and its user from the WELCOME lists
C20_Witness ==
    /\ boot.pc = "done"
    /\ bootstrapped
    /\ IntroducerHasJoiner
    /\ JoinerHasIntroducer
    /\ "s2" \in DOMAIN server_addrs
    /\ "s2" \notin DOMAIN servers
    /\ "u2" \in DOMAIN user_pubkeys

\* C21: the WELCOME sent in reply to a HELLO_JOIN from server j has
\* assigned_id = j, is addressed to j, and lists exactly the servers the
\* responder has an address and a pubkey for, except j, with those values.
ListsPeersOf(w, j, addrs, keys) ==
    /\ w.type = "SERVER_WELCOME"
    /\ w.to = j
    /\ w.payload.assigned_id = j
    /\ { i.server_id : i \in w.payload.servers } =
           (DOMAIN addrs \cap DOMAIN keys) \ {j}
    /\ \A i \in w.payload.servers :
           /\ <<i.host, i.port>> = addrs[i.server_id]
           /\ i.pubkey = keys[i.server_id]
JoinAnswered ==
    last'.op = "handle_server_hello_join" /\ last'.resp.body = <<"ok">>
C21_WelcomeServers ==
    [][/\ JoinAnswered =>
            \E f \in outbox' :
                /\ f.written
                /\ f.to = last'.msg.from
                /\ f.msg.from = SelfId
                /\ ListsPeersOf(f.msg, last'.msg.from, server_addrs', server_pubkeys')
       /\ last'.op = "introducer_hello_join" =>
            ListsPeersOf(boot'.reply, SelfId, introducer'.server_addrs,
                         introducer'.server_pubkeys)]_vars
\* this node, already joined through s1, has answered the HELLO_JOIN of s2
\* with a WELCOME that lists s1
C21_Witness ==
    /\ last.op = "handle_server_hello_join"
    /\ \E f \in outbox :
          /\ f.to = "s2"
          /\ f.msg.type = "SERVER_WELCOME"
          /\ { i.server_id : i \in f.msg.payload.servers } = {"s1"}

\* C22: the client list of a WELCOME names every user of the responder's
\* user_locations, the responder's own users included, each with the id of a
\* real server as its home.
ServerIdStrs == Peers \cup {SelfId}
C22_WelcomeClients ==
    [][JoinAnswered =>
         \A f \in outbox' \ outbox :
             /\ { c.user_id : c \in f.msg.payload.clients } = DOMAIN user_locations'
             /\ \A c \in f.msg.payload.clients : c.server_id \in ServerIdStrs]_vars

\* C23: a SERVER_ANNOUNCE{host, port, pubkey} from the id s leaves servers,
\* server_addrs and server_pubkeys mapping s to exactly those values and
\* modifies no entry of another server or of a user; the same ANNOUNCE
\* again, or after a HELLO_JOIN from s with the same values, changes nothing.
AnnounceStep ==
    last'.op = "handle_server_announce" /\ IsId(last'.msg.from)
SameElsewhere(f, g, k) ==
    /\ DOMAIN g \ {k} = DOMAIN f \ {k}
    /\ \A x \in DOMAIN f \ {k} : g[x] = f[x]
C23_Upsert ==
    AnnounceStep =>
        LET sid == last'.msg.from
            p == last'.msg.payload
        IN /\ sid \in DOMAIN servers'
           /\ ~servers'[sid].socket
           /\ server_addrs'[sid] = <<p.host, p.port>>
           /\ server_pubkeys'[sid] = p.pubkey
           /\ SameElsewhere(servers, servers', sid)
           /\ SameElsewhere(server_addrs, server_addrs', sid)
           /\ SameElsewhere(server_pubkeys, server_pubkeys', sid)
           /\ UNCHANGED <<client_tables, user_pubkeys>>
C23_Again ==
    (/\ AnnounceStep
     /\ last.op \in {"handle_server_announce", "handle_server_hello_join"}
     /\ last.msg.from = last'.msg.from
     /\ last.msg.payload = last'.msg.payload)
    => UNCHANGED <<fed, client_tables, user_pubkeys>>
C23_AnnounceUpsert == [][C23_Upsert /\ C23_Again]_vars
\* s2, known at h2, has announced its new address h7 while s1 and the user
\* u2 are known
C23_Witness ==
    /\ last.op = "handle_server_announce"
    /\ last.msg.from = "s2"
    /\ server_addrs["s2"] = <<"h7", 9002>>
    /\ "s1" \in DOMAIN server_addrs
    /\ server_addrs["s1"] = <<"h2", 9002>>
    /\ "u2" \in DOMAIN user_locations

\* C24: every envelope the node emits (HELLO_JOIN, ANNOUNCE, WELCOME,
\* USER_ADVERTISE, USER_DELIVER) has from equal to the id chosen at startup.
EmittedFromSelf(m) == m.from = SelfId
C24_ServerIdFixed ==
    /\ \A f \in outbox : EmittedFromSelf(f.msg)
    /\ \A u \in DOMAIN pending_messages :
          \A i \in 1..Len(pending_messages[u]) :
              pending_messages[u][i].type = "USER_DELIVER" =>
                  EmittedFromSelf(pending_messages[u][i])

\* C25: bootstrapped starts false, becomes true only in main with
\* skip_bootstrap, in the socket handler of a WELCOME, or at the end of a
\* bootstrap that processed a WELCOME, and never goes back to false.
SetsBootstrapped ==
    \/ last'.op = "main"
    \/ last'.op = "handle_server_welcome" /\ last'.resp.body = <<"ok">>
    \/ last'.op = "bootstrap_finish" /\ boot.pc = "joined"
C25_Step ==
    /\ bootstrapped => bootstrapped'
    /\ (~bootstrapped /\ bootstrapped') => SetsBootstrapped
C25_BootstrappedMonotone == ~bootstrapped /\ [][C25_Step]_vars
\* the flag was set by a WELCOME on a socket and the bootstrap task has since
\* installed its own WELCOME
C25_Witness ==
    /\ bootstrapped
    /\ last.op = "bootstrap_welcome"
    /\ boot.pc = "joined"

\* ---------------------------------------------------------------------- C26
RingPostOps == {"public_channel_message_http", "public_channel_file_start",
                "public_channel_file_chunk", "public_channel_file_end"}
\* the last n entries of s, all of s when it is shorter
LastN(s, n) == IF Len(s) <= n THEN s ELSE SubSeq(s, Len(s) - n + 1, Len(s))
\* ring r went to r2 by one post: the new entry is at the tail, and the oldest
\* entry, and only it, left when r was full
PostedInto(r, r2) ==
    /\ Len(r2) >= 1
    /\ IF Len(r) = RingCap
       THEN /\ Len(r2) = RingCap
            /\ \A i \in 1..(RingCap - 1) : r2[i] = r[i + 1]
       ELSE /\ Len(r2) = Len(r) + 1
            /\ \A i \in 1..Len(r) : r2[i] = r[i]
C26_Held ==
    /\ Len(public_channel_messages) <= RingCap
    /\ Len(public_channel_file_events) <= RingCap
    /\ public_channel_messages = LastN(posted.messages, RingCap)
    /\ public_channel_file_events = LastN(posted.file_events, RingCap)
C26_Post ==
    /\ last'.op = "public_channel_message_http" =>
         /\ PostedInto(public_channel_messages, public_channel_messages')
         /\ public_channel_messages'[Len(public_channel_messages')].content
              = Len(posted.messages)
         /\ UNCHANGED public_channel_file_events
    /\ last'.op \in RingPostOps \ {"public_channel_message_http"} =>
         /\ PostedInto(public_channel_file_events, public_channel_file_events')
         /\ public_channel_file_events'[Len(public_channel_file_events')] = last'.msg
         /\ UNCHANGED public_channel_messages
\* C26: each public-channel ring (messages, file events) holds at most 100
\* entries; a post into a full ring drops exactly the oldest entry and appends
\* the new one at the tail, so the ring is always the most recent 100 posts in
\* post order.
C26_RingBounded == [](C26_Held) /\ [][C26_Post]_vars
\* both rings are full and have dropped their oldest entries
C26_Witness ==
    /\ last.op = "public_channel_file_chunk"
    /\ Len(posted.messages) > RingCap
    /\ Len(posted.file_events) > RingCap
    /\ Len(public_channel_messages) = RingCap
    /\ public_channel_messages[1].content = Len(posted.messages) - RingCap
    /\ public_channel_file_events[RingCap] = last.msg

\* ---------------------------------------------------------------------- C27
\* the positions of ring r a poll with since = s and exclude_from = x selects
Selected(r, s, x) ==
    {i \in 1..Len(r) : r[i].sent_at > s /\ (x = NoneStr \/ r[i].from # x)}
\* list b is ring r restricted to the positions I, in ring order
Restricts(b, r, I) ==
    /\ Len(b) = Cardinality(I)
    /\ \A i \in I : b[Cardinality({j \in I : j <= i})] = r[i]
IsMessagePoll(st) == st.op = "poll_public_channel_messages"
C27_Step ==
    IsMessagePoll(last') =>
       /\ Restricts(last'.resp.body, public_channel_messages,
                    Selected(public_channel_messages, last'.msg.ts, last'.msg.from))
       /\ UNCHANGED <<public_channel_messages, public_channel_file_events,
                      public_channel_version, channel_info>>
       /\ (IsMessagePoll(last) /\ last.msg = last'.msg) => last'.resp = last.resp
\* C27: GET /api/public_channel/messages?since=s&exclude_from=x returns exactly
\* the ring entries with sent_at > s and from # x, in post order, and leaves the
\* ring as it was, so the same poll made again returns the same list.
C27_PollFilters == [][C27_Step]_vars
\* a poll that left one entry out for its time, one for its sender, kept a third
C27_Witness ==
    /\ IsMessagePoll(last)
    /\ last.msg.from = "u1"
    /\ Len(public_channel_messages) = 3
    /\ public_channel_messages[1].sent_at = last.msg.ts
    /\ public_channel_messages[1].from = "u2"
    /\ public_channel_messages[2].from = "u1"
    /\ public_channel_messages[2].sent_at > last.msg.ts
    /\ last.resp.body = <<public_channel_messages[3]>>

\* ---------------------------------------------------------------------- C28
VersionOps == {"handle_public_channel_add", "handle_public_channel_updated"}
Accepted200(st) == st.resp.status = 200
C28_Step ==
    /\ (last'.op \in VersionOps /\ Accepted200(last')) =>
          public_channel_version' = public_channel_version + 1
    /\ ~(last'.op \in VersionOps /\ Accepted200(last')) =>
          public_channel_version' = public_channel_version
    /\ public_channel_version' >= public_channel_version
\* C28: each accepted PUBLIC_CHANNEL_ADD and each accepted PUBLIC_CHANNEL_UPDATED
\* raises the channel version by exactly 1; KEY_SHARE, message and file posts,
\* polls and requests turned away for their type or their payload leave it as
\* it was; the version never decreases.
C28_VersionSteps == public_channel_version = 0 /\ [][C28_Step]_vars
\* an UPDATED accepted after an ADD, a key stored in between
C28_Witness ==
    /\ last.op = "handle_public_channel_updated"
    /\ Accepted200(last)
    /\ public_channel_version = 2
    /\ public_channel_key = "k1"
    /\ public_channel_name = "renamed"
    /\ "u1" \in public_channel_members

\* ---------------------------------------------------------------------- C29
FileIdOf(m) == IF "file_id" \in DOMAIN m.payload THEN m.payload.file_id ELSE NoneStr
\* the envelopes of stream f in the list s, in the order of s
StreamOf(s, f) == SelectSeq(s, LAMBDA m : FileIdOf(m) = f)
\* the file envelopes accepted for u since the last drain of u's queue
FilesSincePoll(u) ==
    LET fs == SelectSeq(since_poll[u], LAMBDA a : a.kind = "file")
    IN [i \in 1..Len(fs) |-> fs[i].msg]
C29_Step ==
    /\ (last'.op \in FileOps /\ last'.resp.body = <<"ok">>) =>
          /\ QueueIn(pending_messages', last'.msg.to)
               = Append(QueueIn(pending_messages, last'.msg.to), last'.msg)
          /\ \A u \in Uuids \ {last'.msg.to} :
                QueueIn(pending_messages', u) = QueueIn(pending_messages, u)
    /\ (last'.op = "poll_file_events_http" /\ last'.user \in Users) =>
          \A f \in FileIds :
             StreamOf(last'.resp.body, f) = StreamOf(FilesSincePoll(last'.user), f)
\* C29: each FILE_START, FILE_CHUNK and FILE_END envelope posted for recipient
\* u is appended to pending[u] with no field changed, and a poll of u's file
\* events returns the envelopes of each file_id in the order they were posted.
C29_FileRelay == [][C29_Step]_vars
\* a poll that returned a chunk of f1 and, after it, the END of f1
C29_Witness ==
    /\ last.op = "poll_file_events_http"
    /\ last.user = "u1"
    /\ Len(last.resp.body) = MaxQueue
    /\ last.resp.body[MaxQueue - 1] = RelayEvent("FILE_CHUNK", "f1", 1, "u1")
    /\ last.resp.body[MaxQueue] = RelayEvent("FILE_END", "f1", 0, "u1")

\* ---------------------------------------------------------------------- C30
AnnouncesIn(o) == {f \in o : f.msg.type = "SERVER_ANNOUNCE"}
\* the WELCOME w is installed in the tables given: its sender, the servers and
\* the users it lists are known
WelcomeInstalled(w, conns, addrs, keys, homes) ==
    /\ w.type = "SERVER_WELCOME"
    /\ w.from \in DOMAIN conns /\ w.from \in DOMAIN addrs /\ w.from \in DOMAIN keys
    /\ \A si \in w.payload.servers :
          si.server_id \in DOMAIN addrs /\ si.server_id \in DOMAIN keys
    /\ \A ci \in w.payload.clients : ci.user_id \in DOMAIN homes
C30_Step ==
    (AnnouncesIn(outbox') # AnnouncesIn(outbox) \/ last'.op = "bootstrap_finish") =>
       /\ AnnouncesIn(outbox) = {}
       /\ WelcomeInstalled(boot.reply, servers, server_addrs, server_pubkeys,
                           user_locations)
       /\ UNCHANGED <<fed, user_locations, user_pubkeys>>
       /\ bootstrapped'
       /\ {f.to : f \in AnnouncesIn(outbox')} = DOMAIN server_addrs \ {SelfId}
       /\ {si.server_id : si \in boot.reply.payload.servers} \cup {boot.reply.from}
             \subseteq {f.to : f \in AnnouncesIn(outbox')} \cup {SelfId}
\* C30: the joiner writes no SERVER_ANNOUNCE before the introducer and every
\* server and client of the WELCOME are in its tables and bootstrapped is true;
\* the frames go to the ids of the peer-address table as it stands after that
\* installation.
C30_AnnounceAfterInstall ==
    /\ [](AnnouncesIn(outbox) # {} => bootstrapped /\ boot.pc = "done")
    /\ [][C30_Step]_vars
\* the ANNOUNCE went to the introducer s1 and to s2, which the WELCOME listed
C30_Witness ==
    /\ boot.pc = "done"
    /\ last.op = "bootstrap_finish"
    /\ {f.to : f \in AnnouncesIn(outbox)} = {"s1", "s2"}
    /\ {si.server_id : si \in boot.reply.payload.servers} = {"s2"}
    /\ "u2" \in DOMAIN user_locations
    /\ bootstrapped

\* ---------------------------------------------------------------------- C31
HelloJoinsIn(o) == {f \in o : f.msg.type = "SERVER_HELLO_JOIN"}
\* the addresses of the first k configured bootstrap servers
FirstAddrs(k) == {AddrStr(boot.config[i]) : i \in 1..k}
\* the attempt at the current candidate is given up in this step
GivenUp == boot'.idx > boot.idx \/ (boot'.pc = "isolated" /\ boot.pc # "isolated")
\* a HELLO_JOIN goes to one configured server, and every HELLO_JOIN written
\* before it went to a server earlier in the list
C31_InOrder ==
    HelloJoinsIn(outbox') # HelloJoinsIn(outbox) =>
       \E k \in 1..Len(boot.config) :
          /\ {f.to : f \in HelloJoinsIn(outbox') \ HelloJoinsIn(outbox)}
               = {AddrStr(boot.config[k])}
          /\ {f.to : f \in HelloJoinsIn(outbox)} \subseteq FirstAddrs(k - 1)
C31_NothingInstalled ==
    GivenUp => /\ UNCHANGED <<fed, user_locations, user_pubkeys, bootstrapped>>
               /\ boot'.server_id = boot.server_id
C31_ThenStops ==
    boot.pc \in {"joined", "done"} =>
       /\ HelloJoinsIn(outbox') = HelloJoinsIn(outbox)
       /\ boot'.idx = boot.idx
\* C31: the configured bootstrap servers are tried one at a time in the order of
\* the configuration; an attempt that fails (connection, send, timeout, closed
\* socket, unparseable frame, other type, invalid WELCOME field) installs
\* nothing; after the first valid WELCOME no further server is contacted.
C31_CandidateOrder == [][C31_InOrder /\ C31_NothingInstalled /\ C31_ThenStops]_vars

\* C32: for every finite list of bootstrap servers the bootstrap task ends
\* (isolated, or joined and announced); when every candidate failed the node
\* is isolated with no peer in servers, server_addrs and server_pubkeys, no
\* remote user in user_locations and user_pubkeys, the bootstrapped flag
\* unset and no SERVER_ANNOUNCE written, and a request made in that state is
\* still answered.
BootstrapEnded == boot.pc \in {"isolated", "done"}
EmptyNetworkView ==
    /\ servers = EmptyMap /\ server_addrs = EmptyMap /\ server_pubkeys = EmptyMap
    /\ user_pubkeys = EmptyMap
    /\ \A u \in DOMAIN user_locations : u \in DOMAIN local_users
    /\ ~bootstrapped
    /\ AnnouncesIn(outbox) = {}
C32_Serves ==
    (boot.pc = "isolated" /\ last'.op = "user_hello_http")
        => /\ last'.resp = Ok200(<<"ok">>)
           /\ "u1" \in DOMAIN local_users'
DeliverStep ==
    /\ last'.op = "handle_server_deliver"
    /\ last'.msg.type = "SERVER_DELIVER"
    /\ DeliverPayloadOk(last'.msg.payload)
    /\ IdFromStrOk(last'.msg.payload.user_id)
DeliverTo == last'.msg.payload.user_id
C33_Local ==
    DeliverTo \in DOMAIN local_users
        => Len(QueueIn(pending_messages', DeliverTo))
               = Len(QueueIn(pending_messages, DeliverTo)) + 1
C33_Remote ==
    (DeliverTo \notin DOMAIN local_users /\ DeliverTo \in DOMAIN user_locations)
        => \E f \in outbox' \ outbox :
              f.to = user_locations[DeliverTo] /\ f.msg.type = "SERVER_DELIVER"
C33_Unmapped ==
    (DeliverTo \notin DOMAIN local_users /\ DeliverTo \notin DOMAIN user_locations)
        => /\ last'.resp.status # 200
           /\ UNCHANGED <<tables, user_pubkeys>>
C33_DeliverRoutes ==
    [][DeliverStep => (C33_Local /\ C33_Remote /\ C33_Unmapped)]_vars

\* C34: a task that waits on a socket or the network holds no mutex; a task
\* that takes a mutex while holding others takes it later in the one order
\* state, local_users, user_locations, user_pubkeys, servers, server_addrs,
\* server_pubkeys, bootstrapped; and no task waits for a mutex whose holder
\* is, directly or through other waiting tasks, waiting for it: no set of
\* tasks is deadlocked.
LockOrder ==
    <<"state", "local_users", "user_locations", "user_pubkeys", "servers",
      "server_addrs", "server_pubkeys", "bootstrapped">>
Rank(l) == CHOOSE i \in 1..Len(LockOrder) : LockOrder[i] = l
Blocked(t) == Wants(t, "lock") /\ Holder(NextOp(t).lock) # {}
NoLockAcrossAwait ==
    \A t \in TaskNames : Wants(t, "await") => threads[t].held = {}
InLockOrder ==
    \A t \in TaskNames :
        Wants(t, "lock") =>
            \A h \in threads[t].held : Rank(h) < Rank(NextOp(t).lock)
\* following the holders from a waiting task ends at a task that can step
RECURSIVE EndsAtRunnable(_, _)
EndsAtRunnable(t, n) ==
    \/ ~Blocked(t)
    \/ /\ n > 0
       /\ \A u \in Holder(NextOp(t).lock) : u # t /\ EndsAtRunnable(u, n - 1)
NoWaitCycle == \A t \in TaskNames : EndsAtRunnable(t, Cardinality(TaskNames))
C34_LockDiscipline == NoLockAcrossAwait /\ InLockOrder /\ NoWaitCycle
C34_Witness ==
    /\ threads["list_users_http"].held = {"state", "local_users", "user_locations"}
    /\ Blocked("heartbeat_cleanup")
    /\ Blocked("handle_server_hello_join")
    /\ NextOp("handle_server_hello_join").lock = "user_locations"
    /\ Wants("bootstrap_process", "await")

\* C35: in every reachable state every user with an entry in user_heartbeat
\* is in local_users, however heartbeat requests and the sweep interleave.
C35_HeartbeatKeysLocal == DOMAIN user_heartbeat \subseteq DOMAIN local_users

\* C36: every user of local_users has an entry in user_heartbeat, whether
\* POST /api/user_hello or a USER_HELLO frame registered it, and so a local
\* user whose heartbeats stop is eventually removed from local_users.
C36_LocalHasHeartbeat == DOMAIN local_users \subseteq DOMAIN user_heartbeat
HeardWithin45(u) ==
    u \in DOMAIN user_heartbeat /\ now - user_heartbeat[u] <= StaleSecs
C36_SilentUserSwept ==
    \A u \in Users :
        (u \in DOMAIN local_users) ~> (u \notin DOMAIN local_users \/ HeardWithin45(u))
C36_EveryLocalUserSwept == []C36_LocalHasHeartbeat /\ C36_SilentUserSwept

\* C37: a USER_DELIVER is pushed onto pending_messages[u], and the request
\* answered 200, only while u is in local_users, also when the sweep runs
\* between the recipient check and the push.
C37_Step ==
    (last'.op = "direct_message_http" /\ last'.resp.status = 200)
        => last'.msg.to \in DOMAIN local_users'
C37_QueuedOnlyForLocal == [][C37_Step]_vars

\* C38: a sweep tick removes a user from local_users, user_locations or
\* user_heartbeat only if its recorded heartbeat is strictly more than 45 s
\* old at the tick, so a user heard within the last 45 s keeps all three
\* entries; the tick leaves the pending queues, user_pubkeys, the peer tables
\* and the public channel as they were.
Dropped(f, u) == u \in DOMAIN f /\ u \notin DOMAIN f'
KeepsEntries(u) ==
    /\ u \in DOMAIN local_users => u \in DOMAIN local_users'
    /\ u \in DOMAIN user_locations => u \in DOMAIN user_locations'
    /\ user_heartbeat'[u] = user_heartbeat[u]
C38_Step ==
    last'.op = "heartbeat_cleanup" =>
        /\ \A u \in Users :
              (Dropped(local_users, u) \/ Dropped(user_locations, u)
                  \/ Dropped(user_heartbeat, u)) => HeartbeatOlderThan45(u)
        /\ \A u \in Users : HeardWithin45(u) => KeepsEntries(u)
        /\ UNCHANGED <<pending_messages, user_pubkeys, fed, public_channel>>
C38_NoFalseRemoval == [][C38_Step]_vars
\* the tick removed u1, a minute silent, and kept u2, heard exactly 45 s ago,
\* with a message waiting for it and a peer known
C38_Witness ==
    /\ last.op = "heartbeat_cleanup"
    /\ last.resp.body = <<"u1">>
    /\ "u2" \in DOMAIN local_users
    /\ "u2" \in DOMAIN user_heartbeat
    /\ now - user_heartbeat["u2"] = StaleSecs
    /\ QueueIn(pending_messages, "u2") # <<>>
    /\ servers # EmptyMap

\* C39: direct messages and direct file events for u wait in one queue;
\* POST /api/poll_direct_messages and POST /api/poll_file_events each return
\* the whole queue, envelopes of both kinds in the order they were accepted,
\* and empty it, so the other poll returns the empty list until something new
\* is accepted for u.
MatchesAccepted(d, a) == IF IsDm(a) THEN IsDeliveryOf(d, a.msg) ELSE d = a.msg
C39_Step ==
    (last'.op \in PollOps /\ last'.user \in Users) =>
        /\ last'.resp.body = QueueIn(pending_messages, last'.user)
        /\ QueueIn(pending_messages', last'.user) = <<>>
        /\ Len(last'.resp.body) = Len(since_poll[last'.user])
        /\ \A i \in 1..Len(last'.resp.body) :
              MatchesAccepted(last'.resp.body[i], since_poll[last'.user][i])
        /\ last.op \in PollOps /\ last.user = last'.user => last'.resp.body = <<>>
C39_SingleMailbox == [][C39_Step]_vars
\* the file poll has just returned a direct message and, after it, a file event
C39_Witness ==
    /\ last.op = "poll_file_events_http"
    /\ Len(last.resp.body) = 2
    /\ last.resp.body[1].type = "USER_DELIVER"
    /\ last.resp.body[2].type = "FILE_START"
    /\ Queue(last.user) = <<>>

\* C40: this node's own server_id is never a key of its servers, server_addrs
\* or server_pubkeys table, whatever HELLO_JOIN, WELCOME and ANNOUNCE frames
\* it handles and however its bootstrap runs.
C40_SelfNeverPeer ==
    SelfId \notin (DOMAIN servers \cup DOMAIN server_addrs \cup DOMAIN server_pubkeys)
====
